---- MODULE Spec2Model ----
(***************************************************************************)
(* Field/group resolution helpers of data-models/data-mappings.ts:         *)
(* getFieldConfigForDataField, getFieldOptions (with getNestedValue),      *)
(* getFieldsBySection, getFieldsGrouped, createDynamicGroups,               *)
(* buildGroupHierarchy, getFieldsHierarchical and                          *)
(* validateMaterialPercentages, over a representative part of              *)
(* FIELD_CONFIGURATIONS and FIELD_GROUPS and a data document held by the   *)
(* caller.                                                                 *)
(*                                                                         *)
(* JavaScript strings that the code inspects character by character (field *)
(* keys, group ids, property names, region codes) are sequences of         *)
(* one-character strings.  Display strings that are only copied (labels,   *)
(* option values) are TLA+ strings.                                        *)
(***************************************************************************)
EXTENDS Integers, Sequences, FiniteSets, TLC

(***************************************************************************)
(* Bounds of the model.                                                    *)
(***************************************************************************)
\* largest array index written into a concrete data field key
MaxIndex == 12
\* largest number of elements of a repeated collection of the data document
MaxItems == 3
\* largest number of entries of a group set passed to buildGroupHierarchy
MaxGroups == 2
\* largest number of entries of a list passed to validateMaterialPercentages
MaxMaterials == 3

(***************************************************************************)
(* String literals of the source, as character sequences.                  *)
(***************************************************************************)
w_client ==
    <<"c", "l", "i", "e", "n", "t">>
w_home ==
    <<"h", "o", "m", "e">>
w_auto ==
    <<"a", "u", "t", "o">>
w_household_members ==
    <<"h", "o", "u", "s", "e", "h", "o", "l", "d", "_", "m", "e", "m", "b", "e", "r", "s">>
w_additional_interests ==
    <<"a", "d", "d", "i", "t", "i", "o", "n", "a", "l", "_", "i", "n", "t", "e", "r", "e", "s", "t", "s">>
w_vehicles ==
    <<"v", "e", "h", "i", "c", "l", "e", "s">>
w_first_name ==
    <<"f", "i", "r", "s", "t", "_", "n", "a", "m", "e">>
w_suffix ==
    <<"s", "u", "f", "f", "i", "x">>
w_driver_training ==
    <<"d", "r", "i", "v", "e", "r", "_", "t", "r", "a", "i", "n", "i", "n", "g">>
w_driver_training_date ==
    <<"d", "r", "i", "v", "e", "r", "_", "t", "r", "a", "i", "n", "i", "n", "g", "_", "d", "a", "t", "e">>
w_foundation_type ==
    <<"f", "o", "u", "n", "d", "a", "t", "i", "o", "n", "_", "t", "y", "p", "e">>
w_address_state ==
    <<"a", "d", "d", "r", "e", "s", "s", "_", "s", "t", "a", "t", "e">>
w_has_financial_interests ==
    <<"h", "a", "s", "_", "f", "i", "n", "a", "n", "c", "i", "a", "l", "_", "i", "n", "t", "e", "r", "e", "s", "t", "s">>
w_type ==
    <<"t", "y", "p", "e">>
w_year ==
    <<"y", "e", "a", "r">>
w_current_insurance ==
    <<"c", "u", "r", "r", "e", "n", "t", "_", "i", "n", "s", "u", "r", "a", "n", "c", "e">>
w_policy_coverages ==
    <<"p", "o", "l", "i", "c", "y", "_", "c", "o", "v", "e", "r", "a", "g", "e", "s">>
w_bodily_injury ==
    <<"b", "o", "d", "i", "l", "y", "_", "i", "n", "j", "u", "r", "y">>
w_current_address ==
    <<"c", "u", "r", "r", "e", "n", "t", "_", "a", "d", "d", "r", "e", "s", "s">>
w_state ==
    <<"s", "t", "a", "t", "e">>
w_default ==
    <<"d", "e", "f", "a", "u", "l", "t">>
w_template_suffix ==
    <<"_", "t", "e", "m", "p", "l", "a", "t", "e">>
w_personal_information ==
    <<"p", "e", "r", "s", "o", "n", "a", "l", "_", "i", "n", "f", "o", "r", "m", "a", "t", "i", "o", "n">>
w_exterior ==
    <<"e", "x", "t", "e", "r", "i", "o", "r">>
w_household_member_template ==
    <<"h", "o", "u", "s", "e", "h", "o", "l", "d", "_", "m", "e", "m", "b", "e", "r", "_", "t", "e", "m", "p", "l", "a", "t", "e">>
w_additional_interests_template ==
    <<"a", "d", "d", "i", "t", "i", "o", "n", "a", "l", "_", "i", "n", "t", "e", "r", "e", "s", "t", "s", "_", "t", "e", "m", "p", "l", "a", "t", "e">>
w_vehicle_template ==
    <<"v", "e", "h", "i", "c", "l", "e", "_", "t", "e", "m", "p", "l", "a", "t", "e">>
w_vehicle_details ==
    <<"v", "e", "h", "i", "c", "l", "e", "_", "d", "e", "t", "a", "i", "l", "s">>
w_current_insurance_details ==
    <<"c", "u", "r", "r", "e", "n", "t", "_", "i", "n", "s", "u", "r", "a", "n", "c", "e", "_", "d", "e", "t", "a", "i", "l", "s">>
w_financial_interests ==
    <<"f", "i", "n", "a", "n", "c", "i", "a", "l", "_", "i", "n", "t", "e", "r", "e", "s", "t", "s">>
w_auto_policy_information ==
    <<"a", "u", "t", "o", "_", "p", "o", "l", "i", "c", "y", "_", "i", "n", "f", "o", "r", "m", "a", "t", "i", "o", "n">>
w_household_member_ ==
    <<"h", "o", "u", "s", "e", "h", "o", "l", "d", "_", "m", "e", "m", "b", "e", "r", "_">>
w_vehicle_ ==
    <<"v", "e", "h", "i", "c", "l", "e", "_">>
w_constructor ==
    <<"c", "o", "n", "s", "t", "r", "u", "c", "t", "o", "r">>
w_toString ==
    <<"t", "o", "S", "t", "r", "i", "n", "g">>
w_valueOf ==
    <<"v", "a", "l", "u", "e", "O", "f">>
w_hasOwnProperty ==
    <<"h", "a", "s", "O", "w", "n", "P", "r", "o", "p", "e", "r", "t", "y">>
w_isPrototypeOf ==
    <<"i", "s", "P", "r", "o", "t", "o", "t", "y", "p", "e", "O", "f">>
w_propertyIsEnumerable ==
    <<"p", "r", "o", "p", "e", "r", "t", "y", "I", "s", "E", "n", "u", "m", "e", "r", "a", "b", "l", "e">>
w_toLocaleString ==
    <<"t", "o", "L", "o", "c", "a", "l", "e", "S", "t", "r", "i", "n", "g">>
w___proto__ ==
    <<"_", "_", "p", "r", "o", "t", "o", "_", "_">>
w___defineGetter__ ==
    <<"_", "_", "d", "e", "f", "i", "n", "e", "G", "e", "t", "t", "e", "r", "_", "_">>
w___defineSetter__ ==
    <<"_", "_", "d", "e", "f", "i", "n", "e", "S", "e", "t", "t", "e", "r", "_", "_">>
w___lookupGetter__ ==
    <<"_", "_", "l", "o", "o", "k", "u", "p", "G", "e", "t", "t", "e", "r", "_", "_">>
w___lookupSetter__ ==
    <<"_", "_", "l", "o", "o", "k", "u", "p", "S", "e", "t", "t", "e", "r", "_", "_">>
w_length ==
    <<"l", "e", "n", "g", "t", "h">>
txt_Household_Member ==
    <<"H", "o", "u", "s", "e", "h", "o", "l", "d", " ", "M", "e", "m", "b", "e", "r", " ">>
txt_Vehicle ==
    <<"V", "e", "h", "i", "c", "l", "e", " ">>
txt_Information_for_household_member ==
    <<"I", "n", "f", "o", "r", "m", "a", "t", "i", "o", "n", " ", "f", "o", "r", " ", "h", "o", "u", "s", "e", "h", "o", "l", "d", " ", "m", "e", "m", "b", "e", "r", " ">>
txt_Information_for_vehicle ==
    <<"I", "n", "f", "o", "r", "m", "a", "t", "i", "o", "n", " ", "f", "o", "r", " ", "v", "e", "h", "i", "c", "l", "e", " ">>

\* the separator of key segments and the array placeholder of template keys
Dot == <<".">>
Star == <<"[", "*", "]">>

\* numeric `order` values, counted in halves so that 9.5 is a whole number
Order(n) == 2 * n

\* display strings that the helpers only copy
Text(s) == [t |-> "string", text |-> s]

\* new Date().getFullYear() when the module was loaded
ModuleLoadYear == 2025

\* property names of MaterialPercentage and the field that holds a list of
\* them
w_material ==
    <<"m", "a", "t", "e", "r", "i", "a", "l">>
w_percentage ==
    <<"p", "e", "r", "c", "e", "n", "t", "a", "g", "e">>
w_wall_finishes ==
    <<"w", "a", "l", "l", "_", "f", "i", "n", "i", "s", "h", "e", "s">>
\* the placeholder of a dynamicNamePattern
txt_index_plus_1 == <<"{", "i", "n", "d", "e", "x", " ", "+", " ", "1", "}">>
\* further property names of the auto section and the bucket of the fields
\* without a group
w_desired_policy_start_date ==
    <<"d", "e", "s", "i", "r", "e", "d", "_", "p", "o", "l", "i", "c", "y", "_", "s", "t", "a", "r", "t", "_", "d", "a", "t", "e">>
w_wants_electronic_documents ==
    <<"w", "a", "n", "t", "s", "_", "e", "l", "e", "c", "t", "r", "o", "n", "i", "c", "_", "d", "o", "c", "u", "m", "e", "n", "t", "s">>
w_ungrouped ==
    <<"u", "n", "g", "r", "o", "u", "p", "e", "d">>

(***************************************************************************)
(* JavaScript values.  Every value carries its type tag, so values of      *)
(* different types are records with different fields.                      *)
(***************************************************************************)
Undefined == [t |-> "undefined"]
Null == [t |-> "null"]
Str(s) == [t |-> "string", s |-> s]
Num(n) == [t |-> "number", n |-> n]
Bool(b) == [t |-> "boolean", b |-> b]
Obj(f) == [t |-> "object", o |-> f]
Arr(e) == [t |-> "array", a |-> e]
Fn(name) == [t |-> "function", name |-> name]

\* the value of an object literal with no properties
EmptyObject == Obj(<<>>)

\* ToBoolean: what `if (v)`, `v && ...` and `v || ...` test
Truthy(v) ==
    CASE v.t = "undefined" -> FALSE
      [] v.t = "null" -> FALSE
      [] v.t = "string" -> v.s # <<>>
      [] v.t = "number" -> v.n # 0
      [] v.t = "boolean" -> v.b
      [] OTHER -> TRUE

IsNullish(v) == v.t \in {"undefined", "null"}

\* the property names every object inherits from Object.prototype
ObjectPrototype ==
    {w_constructor, w_toString, w_valueOf, w_hasOwnProperty, w_isPrototypeOf,
     w_propertyIsEnumerable, w_toLocaleString, w___proto__,
     w___defineGetter__, w___defineSetter__, w___lookupGetter__, w___lookupSetter__}

\* the value of an inherited property: a method, or the prototype object
\* itself for __proto__
Inherited(key) ==
    IF key = w___proto__ THEN EmptyObject
    ELSE IF key \in ObjectPrototype THEN Fn(key)
    ELSE Undefined

\* v[key] for a value v that is neither null nor undefined; the keys looked
\* up are property names, never array indices
GetProperty(v, key) ==
    CASE v.t = "object" -> IF key \in DOMAIN v.o THEN v.o[key] ELSE Inherited(key)
      [] v.t = "array" -> IF key = w_length THEN Num(Len(v.a)) ELSE Inherited(key)
      [] v.t = "string" -> IF key = w_length THEN Num(Len(v.s)) ELSE Inherited(key)
      [] OTHER -> Inherited(key)

(***************************************************************************)
(* String operations of the JavaScript runtime that the helpers call.      *)
(***************************************************************************)
LowerLetters ==
    <<"a", "b", "c", "d", "e", "f", "g", "h", "i", "j", "k", "l", "m",
      "n", "o", "p", "q", "r", "s", "t", "u", "v", "w", "x", "y", "z">>
UpperLetters ==
    <<"A", "B", "C", "D", "E", "F", "G", "H", "I", "J", "K", "L", "M",
      "N", "O", "P", "Q", "R", "S", "T", "U", "V", "W", "X", "Y", "Z">>
Digits ==
    <<"0", "1", "2", "3", "4", "5", "6", "7", "8", "9">>

IsDigit(c) == \E i \in 1..Len(Digits) : Digits[i] = c
DigitValue(c) == (CHOOSE i \in 1..Len(Digits) : Digits[i] = c) - 1

UpperChar(c) ==
    IF \E i \in 1..Len(LowerLetters) : LowerLetters[i] = c
    THEN UpperLetters[CHOOSE i \in 1..Len(LowerLetters) : LowerLetters[i] = c]
    ELSE c

\* a toUpperCase that leaves the text as it is
toUpperCase_asIs(s) == s

\* String.prototype.toUpperCase
toUpperCase(s) == [i \in 1..Len(s) |-> UpperChar(s[i])]

\* parseInt of a string of decimal digits
RECURSIVE parseInt(_)
parseInt(ds) ==
    IF ds = <<>> THEN 0
    ELSE 10 * parseInt(SubSeq(ds, 1, Len(ds) - 1)) + DigitValue(ds[Len(ds)])

\* the decimal text a template literal `${n}` inserts for an integer n >= 0
RECURSIVE NumberToString(_)
NumberToString(n) ==
    IF n < 10 THEN <<Digits[n + 1]>>
    ELSE NumberToString(n \div 10) \o <<Digits[(n % 10) + 1]>>

\* does sub occur in s at position i (1-based)
OccursAt(s, sub, i) ==
    /\ i + Len(sub) - 1 <= Len(s)
    /\ \A k \in 1..Len(sub) : s[i + k - 1] = sub[k]

\* String.prototype.indexOf, 1-based; 0 when sub does not occur
IndexOf(s, sub) ==
    IF \E i \in 1..(Len(s) + 1) : OccursAt(s, sub, i)
    THEN CHOOSE i \in 1..(Len(s) + 1) :
            /\ OccursAt(s, sub, i)
            /\ \A j \in 1..(i - 1) : ~OccursAt(s, sub, j)
    ELSE 0

\* String.prototype.includes
includes(s, sub) == IndexOf(s, sub) # 0

\* String.prototype.replace with a string pattern: only the first
\* occurrence is replaced
StringReplace(s, sub, rep) ==
    LET i == IndexOf(s, sub)
    IN  IF i = 0 THEN s
        ELSE SubSeq(s, 1, i - 1) \o rep \o SubSeq(s, i + Len(sub), Len(s))

\* String.prototype.split with a one-character separator
RECURSIVE split(_, _)
split(s, sep) ==
    LET i == IndexOf(s, <<sep>>)
    IN  IF i = 0 THEN <<s>>
        ELSE <<SubSeq(s, 1, i - 1)>> \o split(SubSeq(s, i + 1, Len(s)), sep)

(***************************************************************************)
(* The regular expressions of getFieldConfigForDataField.                  *)
(***************************************************************************)
\* number of digits of s from position i on
RECURSIVE DigitRun(_, _)
DigitRun(s, i) ==
    IF i <= Len(s) /\ IsDigit(s[i]) THEN 1 + DigitRun(s, i + 1) ELSE 0

\* length of the match of /\[(\*|\d+)\]/ (withStar) or /\[(\d+)\]/ that
\* starts at position i of s; 0 when there is none
BracketMatchLen(s, i, withStar) ==
    IF i > Len(s) \/ s[i] # "[" THEN 0
    ELSE IF withStar /\ i + 2 <= Len(s) /\ s[i + 1] = "*" /\ s[i + 2] = "]" THEN 3
    ELSE LET d == DigitRun(s, i + 1)
         IN  IF d >= 1 /\ i + d + 1 <= Len(s) /\ s[i + d + 1] = "]"
             THEN d + 2 ELSE 0

\* the replacement text '\\[\\d+\\]', i.e. the characters \[\d+\]
IndexPattern == <<"\\", "[", "\\", "d", "+", "\\", "]">>

\* templateKey.replace(/\[(\*|\d+)\]/g, '\\[\\d+\\]') from position i on
RECURSIVE ReplaceBracketsFrom(_, _)
ReplaceBracketsFrom(s, i) ==
    IF i > Len(s) THEN <<>>
    ELSE LET m == BracketMatchLen(s, i, TRUE)
         IN  IF m > 0 THEN IndexPattern \o ReplaceBracketsFrom(s, i + m)
             ELSE <<s[i]>> \o ReplaceBracketsFrom(s, i + 1)

TemplatePattern(templateKey) == ReplaceBracketsFrom(templateKey, 1)

\* new RegExp(text): the atoms of the pattern text.  An escaped character is
\* itself (\d is the digit class), an unescaped . is any character, a
\* following + repeats the atom one or more times.  The registry's keys
\* consist of [a-z0-9_.] and [*], so no other metacharacter occurs.
RECURSIVE RegExp(_, _)
RegExp(p, i) ==
    IF i > Len(p) THEN <<>>
    ELSE LET esc == p[i] = "\\"
             ch == IF esc THEN p[i + 1] ELSE p[i]
             next == IF esc THEN i + 2 ELSE i + 1
             kind == IF esc /\ ch = "d" THEN "digit"
                     ELSE IF ~esc /\ ch = "." THEN "any"
                     ELSE "literal"
             plus == next <= Len(p) /\ p[next] = "+"
         IN  <<[kind |-> kind, c |-> ch, plus |-> plus]>>
                 \o RegExp(p, IF plus THEN next + 1 ELSE next)

\* the characters an unescaped . does not match
LineTerminators == {"\n", "\r"}

AtomMatches(a, ch) ==
    CASE a.kind = "digit" -> IsDigit(ch)
      [] a.kind = "any" -> ch \notin LineTerminators
      [] OTHER -> ch = a.c

\* do the atoms from i on match s from position j to its end
RECURSIVE MatchFrom(_, _, _, _)
MatchFrom(atoms, i, s, j) ==
    IF i > Len(atoms) THEN j = Len(s) + 1
    ELSE LET a == atoms[i]
         IN  IF a.plus
             THEN \E k \in 1..(Len(s) - j + 1) :
                     /\ \A m \in j..(j + k - 1) : AtomMatches(a, s[m])
                     /\ MatchFrom(atoms, i + 1, s, j + k)
             ELSE /\ j <= Len(s)
                  /\ AtomMatches(a, s[j])
                  /\ MatchFrom(atoms, i + 1, s, j + 1)

\* new RegExp(`^${pattern}$`).test(s)
RegExpTest(pattern, s) == MatchFrom(RegExp(pattern, 1), 1, s, 1)

\* the digits of the last bracketed integer of s instead of the first
FirstBracketedDigits_lastBracket(s) ==
    IF \E i \in 1..Len(s) : BracketMatchLen(s, i, FALSE) > 0
    THEN LET i == CHOOSE i \in 1..Len(s) :
                     /\ BracketMatchLen(s, i, FALSE) > 0
                     /\ \A j \in (i + 1)..Len(s) : BracketMatchLen(s, j, FALSE) = 0
         IN  SubSeq(s, i + 1, i + BracketMatchLen(s, i, FALSE) - 2)
    ELSE <<>>

\* the same match with a capture of one digit, /\[(\d)/
FirstBracketedDigits_oneDigit(s) ==
    IF \E i \in 1..Len(s) : BracketMatchLen(s, i, FALSE) > 0
    THEN LET i == CHOOSE i \in 1..Len(s) :
                     /\ BracketMatchLen(s, i, FALSE) > 0
                     /\ \A j \in 1..(i - 1) : BracketMatchLen(s, j, FALSE) = 0
         IN  SubSeq(s, i + 1, i + 1)
    ELSE <<>>

\* dataFieldKey.match(/\[(\d+)\]/): the digits of the first bracketed
\* integer of s, <<>> when s has none (the match is null)
FirstBracketedDigits(s) ==
    IF \E i \in 1..Len(s) : BracketMatchLen(s, i, FALSE) > 0
    THEN LET i == CHOOSE i \in 1..Len(s) :
                     /\ BracketMatchLen(s, i, FALSE) > 0
                     /\ \A j \in 1..(i - 1) : BracketMatchLen(s, j, FALSE) = 0
         IN  SubSeq(s, i + 1, i + BracketMatchLen(s, i, FALSE) - 2)
    ELSE <<>>
cfg_client_first_name ==
    [key |-> w_client \o Dot \o w_first_name,
     label |-> "First Name",
     description |-> Undefined,
     inputType |-> "text",
     displayCasing |-> "title",
     inputCasing |-> Text("title"),
     group |-> Str(w_personal_information),
     section |-> "applicant",
     order |-> Order(1),
     required |-> Bool(TRUE),
     validations |-> Arr(<<
         [type |-> "required", value |-> Undefined, message |-> Text("First name is required")],
         [type |-> "minLength", value |-> Num(1), message |-> Text("First name cannot be empty")]>>),
     options |-> Undefined,
     stateSpecificOptions |-> Undefined,
     dependsOnStateFrom |-> Undefined,
     conditional |-> Undefined]
cfg_client_suffix ==
    [key |-> w_client \o Dot \o w_suffix,
     label |-> "Suffix",
     description |-> Undefined,
     inputType |-> "dropdown",
     displayCasing |-> "title",
     inputCasing |-> Undefined,
     group |-> Str(w_personal_information),
     section |-> "applicant",
     order |-> Order(4),
     required |-> Undefined,
     validations |-> Undefined,
     options |-> Arr(<<
         [value |-> "Jr", label |-> "Jr"],
         [value |-> "Sr", label |-> "Sr"],
         [value |-> "I", label |-> "I"],
         [value |-> "II", label |-> "II"],
         [value |-> "III", label |-> "III"],
         [value |-> "IV", label |-> "IV"]>>),
     stateSpecificOptions |-> Undefined,
     dependsOnStateFrom |-> Undefined,
     conditional |-> Undefined]
cfg_household_members_first_name ==
    [key |-> w_client \o Dot \o w_household_members \o Star \o Dot \o w_first_name,
     label |-> "First Name",
     description |-> Undefined,
     inputType |-> "text",
     displayCasing |-> "title",
     inputCasing |-> Text("title"),
     group |-> Str(w_household_member_template),
     section |-> "applicant",
     order |-> Order(1),
     required |-> Bool(TRUE),
     validations |-> Arr(<<
         [type |-> "required", value |-> Undefined, message |-> Text("First name is required")],
         [type |-> "minLength", value |-> Num(1), message |-> Text("First name cannot be empty")]>>),
     options |-> Undefined,
     stateSpecificOptions |-> Undefined,
     dependsOnStateFrom |-> Undefined,
     conditional |-> Undefined]
cfg_household_members_driver_training_date ==
    [key |-> w_client \o Dot \o w_household_members \o Star \o Dot \o w_driver_training_date,
     label |-> "Driver Training Date",
     description |-> Undefined,
     inputType |-> "date",
     displayCasing |-> "none",
     inputCasing |-> Undefined,
     group |-> Str(w_household_member_template),
     section |-> "applicant",
     order |-> Order(25),
     required |-> Undefined,
     validations |-> Undefined,
     options |-> Undefined,
     stateSpecificOptions |-> Undefined,
     dependsOnStateFrom |-> Undefined,
     conditional |-> [t |-> "object", dependsOn |-> w_client \o Dot \o w_household_members \o Star \o Dot \o w_driver_training, when |-> "equals", value |-> Text("Yes")]]
cfg_home_foundation_type ==
    [key |-> w_home \o Dot \o w_foundation_type,
     label |-> "Foundation Type",
     description |-> Undefined,
     inputType |-> "dropdown",
     displayCasing |-> "title",
     inputCasing |-> Undefined,
     group |-> Str(w_exterior),
     section |-> "home",
     order |-> Order(9),
     required |-> Undefined,
     validations |-> Undefined,
     options |-> Undefined,
     stateSpecificOptions |-> Obj(
         <<"F", "L">> :> Arr(<<
             [value |-> "Basement", label |-> "Basement"],
             [value |-> "Basement - Finished", label |-> "Basement - Finished"],
             [value |-> "Basement - Unfinished", label |-> "Basement - Unfinished"],
             [value |-> "Basement - Walkout", label |-> "Basement - Walkout"],
             [value |-> "Closed", label |-> "Closed"],
             [value |-> "Crawlspace", label |-> "Crawlspace"],
             [value |-> "Elevated Post/Pier & Beam", label |-> "Elevated Post/Pier & Beam"],
             [value |-> "Hillside Foundation", label |-> "Hillside Foundation"],
             [value |-> "Open", label |-> "Open"],
             [value |-> "Other", label |-> "Other"],
             [value |-> "Piers", label |-> "Piers"],
             [value |-> "Pilings (Other)", label |-> "Pilings (Other)"],
             [value |-> "Pilings/Stilts", label |-> "Pilings/Stilts"],
             [value |-> "Slab", label |-> "Slab"]>>) @@
         w_default :> Arr(<<
             [value |-> "Basement - Finished", label |-> "Basement - Finished"],
             [value |-> "Basement - Unfinished", label |-> "Basement - Unfinished"],
             [value |-> "Basement - Walkout", label |-> "Basement - Walkout"],
             [value |-> "Hillside Foundation", label |-> "Hillside Foundation"],
             [value |-> "Other", label |-> "Other"],
             [value |-> "Piers", label |-> "Piers"],
             [value |-> "Pilings/Stilts", label |-> "Pilings/Stilts"],
             [value |-> "Slab", label |-> "Slab"]>>)),
     dependsOnStateFrom |-> Str(w_home \o Dot \o w_address_state),
     conditional |-> Undefined]
cfg_additional_interests_type ==
    [key |-> w_home \o Dot \o w_additional_interests \o Star \o Dot \o w_type,
     label |-> "Interest Type",
     description |-> Undefined,
     inputType |-> "dropdown",
     displayCasing |-> "title",
     inputCasing |-> Undefined,
     group |-> Str(w_additional_interests_template),
     section |-> "home",
     order |-> Order(1),
     required |-> Undefined,
     validations |-> Undefined,
     options |-> Arr(<<
         [value |-> "Mortgagee", label |-> "Mortgagee"],
         [value |-> "Lienholder", label |-> "Lienholder"],
         [value |-> "Trustee", label |-> "Trustee"],
         [value |-> "Loss Payee", label |-> "Loss Payee"],
         [value |-> "Additional Insured", label |-> "Additional Insured"],
         [value |-> "Other", label |-> "Other"]>>),
     stateSpecificOptions |-> Undefined,
     dependsOnStateFrom |-> Undefined,
     conditional |-> [t |-> "object", dependsOn |-> w_home \o Dot \o w_has_financial_interests, when |-> "equals", value |-> Text("Yes")]]
cfg_vehicles_year ==
    [key |-> w_auto \o Dot \o w_vehicles \o Star \o Dot \o w_year,
     label |-> "Year",
     description |-> Undefined,
     inputType |-> "number",
     displayCasing |-> "none",
     inputCasing |-> Undefined,
     group |-> Str(w_vehicle_details),
     section |-> "auto",
     order |-> Order(3),
     required |-> Bool(TRUE),
     validations |-> Arr(<<
         [type |-> "required", value |-> Undefined, message |-> Text("Vehicle year is required")],
         [type |-> "min", value |-> Num(1900), message |-> Text("Year must be 1900 or later")],
         [type |-> "max", value |-> Num(ModuleLoadYear + 2), message |-> Text("Year cannot be more than 2 years in the future")]>>),
     options |-> Undefined,
     stateSpecificOptions |-> Undefined,
     dependsOnStateFrom |-> Undefined,
     conditional |-> Undefined]
cfg_bodily_injury ==
    [key |-> w_auto \o Dot \o w_current_insurance \o Dot \o w_policy_coverages \o Dot \o w_bodily_injury,
     label |-> "Bodily Injury Liability",
     description |-> Text("Coverage for injuries caused to others in an accident"),
     inputType |-> "dropdown",
     displayCasing |-> "none",
     inputCasing |-> Undefined,
     group |-> Str(w_current_insurance_details),
     section |-> "auto",
     order |-> Order(12),
     required |-> Undefined,
     validations |-> Undefined,
     options |-> Undefined,
     stateSpecificOptions |-> Obj(
         <<"F", "L">> :> Arr(<<
             [value |-> "10000/20000", label |-> "$10,000/$20,000"],
             [value |-> "25000/50000", label |-> "$25,000/$50,000"],
             [value |-> "50000/100000", label |-> "$50,000/$100,000"],
             [value |-> "100000/300000", label |-> "$100,000/$300,000"]>>) @@
         <<"C", "A">> :> Arr(<<
             [value |-> "15000/30000", label |-> "$15,000/$30,000"],
             [value |-> "30000/60000", label |-> "$30,000/$60,000"],
             [value |-> "50000/100000", label |-> "$50,000/$100,000"],
             [value |-> "100000/300000", label |-> "$100,000/$300,000"],
             [value |-> "250000/500000", label |-> "$250,000/$500,000"]>>) @@
         <<"N", "Y">> :> Arr(<<
             [value |-> "25000/50000", label |-> "$25,000/$50,000"],
             [value |-> "50000/100000", label |-> "$50,000/$100,000"],
             [value |-> "100000/300000", label |-> "$100,000/$300,000"],
             [value |-> "250000/500000", label |-> "$250,000/$500,000"],
             [value |-> "500000/1000000", label |-> "$500,000/$1,000,000"]>>) @@
         w_default :> Arr(<<
             [value |-> "25000/50000", label |-> "$25,000/$50,000"],
             [value |-> "50000/100000", label |-> "$50,000/$100,000"],
             [value |-> "100000/300000", label |-> "$100,000/$300,000"],
             [value |-> "250000/500000", label |-> "$250,000/$500,000"],
             [value |-> "500000/1000000", label |-> "$500,000/$1,000,000"]>>)),
     dependsOnStateFrom |-> Str(w_client \o Dot \o w_current_address \o Dot \o w_state),
     conditional |-> Undefined]
cfg_auto_desired_policy_start_date ==
    [key |-> w_auto \o Dot \o w_desired_policy_start_date,
     label |-> "Desired Policy Start Date",
     description |-> Text("When you would like your new auto policy to begin"),
     inputType |-> "date",
     displayCasing |-> "none",
     inputCasing |-> Undefined,
     group |-> Str(w_auto_policy_information),
     section |-> "auto",
     order |-> Order(1),
     required |-> Bool(TRUE),
     validations |-> Arr(<<
         [type |-> "required", value |-> Undefined, message |-> Text("Policy start date is required")]>>),
     options |-> Undefined,
     stateSpecificOptions |-> Undefined,
     dependsOnStateFrom |-> Undefined,
     conditional |-> Undefined]
cfg_auto_wants_electronic_documents ==
    [key |-> w_auto \o Dot \o w_wants_electronic_documents,
     label |-> "Electronic Documents",
     description |-> Text("Would you prefer to receive policy documents electronically?"),
     inputType |-> "radio",
     displayCasing |-> "none",
     inputCasing |-> Undefined,
     group |-> Str(w_auto_policy_information),
     section |-> "auto",
     order |-> Order(4),
     required |-> Undefined,
     validations |-> Undefined,
     options |-> Arr(<<
         [value |-> "true", label |-> "Yes, electronic documents"],
         [value |-> "false", label |-> "No, paper documents"]>>),
     stateSpecificOptions |-> Undefined,
     dependsOnStateFrom |-> Undefined,
     conditional |-> Undefined]
grp_personal_information ==
    [id |-> w_personal_information,
     name |-> <<"P", "e", "r", "s", "o", "n", "a", "l", " ", "I", "n", "f", "o", "r", "m", "a", "t", "i", "o", "n">>,
     order |-> Order(1),
     description |-> Str(<<"B", "a", "s", "i", "c", " ", "p", "e", "r", "s", "o", "n", "a", "l", " ", "d", "e", "t", "a", "i", "l", "s", " ", "a", "n", "d", " ", "c", "o", "n", "t", "a", "c", "t", " ", "i", "n", "f", "o", "r", "m", "a", "t", "i", "o", "n">>),
     defaultOpen |-> Bool(TRUE),
     parentGroup |-> Undefined,
     isTemplate |-> Undefined,
     templatePattern |-> Undefined,
     dynamicNamePattern |-> Undefined]
grp_household_member_template ==
    [id |-> w_household_member_template,
     name |-> <<"H", "o", "u", "s", "e", "h", "o", "l", "d", " ", "M", "e", "m", "b", "e", "r", "s">>,
     order |-> Order(7),
     description |-> Undefined,
     defaultOpen |-> Bool(FALSE),
     parentGroup |-> Undefined,
     isTemplate |-> Bool(TRUE),
     templatePattern |-> Str(w_client \o Dot \o w_household_members \o Star),
     dynamicNamePattern |-> Str(<<"H", "o", "u", "s", "e", "h", "o", "l", "d", " ", "M", "e", "m", "b", "e", "r", " ", "{", "i", "n", "d", "e", "x", " ", "+", " ", "1", "}">>)]
grp_exterior ==
    [id |-> w_exterior,
     name |-> <<"E", "x", "t", "e", "r", "i", "o", "r">>,
     order |-> Order(2),
     description |-> Str(<<"B", "u", "i", "l", "d", "i", "n", "g", " ", "m", "a", "t", "e", "r", "i", "a", "l", "s", " ", "a", "n", "d", " ", "c", "o", "n", "s", "t", "r", "u", "c", "t", "i", "o", "n", " ", "t", "y", "p", "e">>),
     defaultOpen |-> Bool(TRUE),
     parentGroup |-> Undefined,
     isTemplate |-> Undefined,
     templatePattern |-> Undefined,
     dynamicNamePattern |-> Undefined]
grp_financial_interests ==
    [id |-> w_financial_interests,
     name |-> <<"F", "i", "n", "a", "n", "c", "i", "a", "l", " ", "I", "n", "t", "e", "r", "e", "s", "t", "s">>,
     order |-> Order(9),
     description |-> Str(<<"M", "o", "r", "t", "g", "a", "g", "e", "s", " ", "a", "n", "d", " ", "o", "t", "h", "e", "r", " ", "f", "i", "n", "a", "n", "c", "i", "a", "l", " ", "i", "n", "t", "e", "r", "e", "s", "t", "s">>),
     defaultOpen |-> Bool(FALSE),
     parentGroup |-> Undefined,
     isTemplate |-> Undefined,
     templatePattern |-> Undefined,
     dynamicNamePattern |-> Undefined]
grp_additional_interests_template ==
    [id |-> w_additional_interests_template,
     name |-> <<"A", "d", "d", "i", "t", "i", "o", "n", "a", "l", " ", "I", "n", "t", "e", "r", "e", "s", "t">>,
     order |-> Order(9) + 1,
     description |-> Undefined,
     defaultOpen |-> Bool(FALSE),
     parentGroup |-> Undefined,
     isTemplate |-> Bool(TRUE),
     templatePattern |-> Str(w_home \o Dot \o w_additional_interests \o Star),
     dynamicNamePattern |-> Str(<<"A", "d", "d", "i", "t", "i", "o", "n", "a", "l", " ", "I", "n", "t", "e", "r", "e", "s", "t", " ", "{", "i", "n", "d", "e", "x", " ", "+", " ", "1", "}">>)]
grp_auto_policy_information ==
    [id |-> w_auto_policy_information,
     name |-> <<"P", "o", "l", "i", "c", "y", " ", "I", "n", "f", "o", "r", "m", "a", "t", "i", "o", "n">>,
     order |-> Order(1),
     description |-> Str(<<"G", "e", "n", "e", "r", "a", "l", " ", "a", "u", "t", "o", " ", "p", "o", "l", "i", "c", "y", " ", "p", "r", "e", "f", "e", "r", "e", "n", "c", "e", "s", " ", "a", "n", "d", " ", "s", "e", "t", "t", "i", "n", "g", "s">>),
     defaultOpen |-> Bool(TRUE),
     parentGroup |-> Undefined,
     isTemplate |-> Undefined,
     templatePattern |-> Undefined,
     dynamicNamePattern |-> Undefined]
grp_vehicle_template ==
    [id |-> w_vehicle_template,
     name |-> <<"V", "e", "h", "i", "c", "l", "e">>,
     order |-> Order(3),
     description |-> Undefined,
     defaultOpen |-> Bool(TRUE),
     parentGroup |-> Undefined,
     isTemplate |-> Bool(TRUE),
     templatePattern |-> Str(w_auto \o Dot \o w_vehicles \o Star),
     dynamicNamePattern |-> Str(<<"V", "e", "h", "i", "c", "l", "e", " ", "{", "i", "n", "d", "e", "x", " ", "+", " ", "1", "}">>)]
grp_vehicle_details ==
    [id |-> w_vehicle_details,
     name |-> <<"V", "e", "h", "i", "c", "l", "e", " ", "D", "e", "t", "a", "i", "l", "s">>,
     order |-> Order(1),
     description |-> Str(<<"B", "a", "s", "i", "c", " ", "v", "e", "h", "i", "c", "l", "e", " ", "i", "n", "f", "o", "r", "m", "a", "t", "i", "o", "n", " ", "a", "n", "d", " ", "s", "p", "e", "c", "i", "f", "i", "c", "a", "t", "i", "o", "n", "s">>),
     defaultOpen |-> Bool(TRUE),
     parentGroup |-> Str(w_vehicle_template),
     isTemplate |-> Undefined,
     templatePattern |-> Undefined,
     dynamicNamePattern |-> Undefined]
grp_current_insurance_details ==
    [id |-> w_current_insurance_details,
     name |-> <<"C", "u", "r", "r", "e", "n", "t", " ", "I", "n", "s", "u", "r", "a", "n", "c", "e">>,
     order |-> Order(4),
     description |-> Str(<<"C", "u", "r", "r", "e", "n", "t", " ", "a", "u", "t", "o", " ", "i", "n", "s", "u", "r", "a", "n", "c", "e", " ", "c", "a", "r", "r", "i", "e", "r", " ", "a", "n", "d", " ", "p", "o", "l", "i", "c", "y", " ", "d", "e", "t", "a", "i", "l", "s">>),
     defaultOpen |-> Bool(TRUE),
     parentGroup |-> Undefined,
     isTemplate |-> Undefined,
     templatePattern |-> Undefined,
     dynamicNamePattern |-> Undefined]

\* the part of the field registry modelled, in source order
FIELD_CONFIGURATIONS ==
    <<cfg_client_first_name,
      cfg_client_suffix,
      cfg_household_members_first_name,
      cfg_household_members_driver_training_date,
      cfg_home_foundation_type,
      cfg_additional_interests_type,
      cfg_auto_desired_policy_start_date,
      cfg_auto_wants_electronic_documents,
      cfg_vehicles_year,
      cfg_bodily_injury>>

\* the part of the group registry modelled, in source order
FIELD_GROUPS ==
    <<grp_personal_information,
      grp_household_member_template,
      grp_exterior,
      grp_financial_interests,
      grp_additional_interests_template,
      grp_auto_policy_information,
      grp_vehicle_template,
      grp_vehicle_details,
      grp_current_insurance_details>>

(***************************************************************************)
(* Completion of a call: a returned value or a thrown error.               *)
(***************************************************************************)
Return(v) == [completion |-> "return", value |-> v]
Throw(e) == [completion |-> "throw", error |-> e]
Returned(r) == r.completion = "return"

(***************************************************************************)
(* Field lookup.                                                           *)
(***************************************************************************)
\* a FieldConfiguration object of the registry or a copy of one
Config(c) == [t |-> "FieldConfiguration", c |-> c]

\* FIELD_CONFIGURATIONS[key]: the own property, else what the object
\* literal inherits
RegistryLookup(key) ==
    IF \E n \in 1..Len(FIELD_CONFIGURATIONS) : FIELD_CONFIGURATIONS[n].key = key
    THEN Config(FIELD_CONFIGURATIONS[
            CHOOSE n \in 1..Len(FIELD_CONFIGURATIONS) : FIELD_CONFIGURATIONS[n].key = key])
    ELSE Inherited(key)

getFieldConfig(fieldKey) ==
    IF Truthy(RegistryLookup(fieldKey)) THEN RegistryLookup(fieldKey) ELSE Null

\* does entry n of the registry pass the two tests of the template loop
TemplateMatches(n, dataFieldKey) ==
    LET templateKey == FIELD_CONFIGURATIONS[n].key
    IN  /\ includes(templateKey, Star)
        /\ RegExpTest(TemplatePattern(templateKey), dataFieldKey)

\* config.group?.replace('_template', `_${index}`) || config.group
DynamicGroup(group, index) ==
    IF IsNullish(group) THEN group
    ELSE LET replaced == Str(StringReplace(group.s, w_template_suffix,
                                           <<"_">> \o NumberToString(index)))
         IN  IF Truthy(replaced) THEN replaced ELSE group

\* the object returned for the first matching template
TemplateInstance(config, dataFieldKey) ==
    LET indexMatch == FirstBracketedDigits(dataFieldKey)
        index == IF indexMatch # <<>> THEN parseInt(indexMatch) ELSE 0
    IN  [config EXCEPT !.key = dataFieldKey,
                       !.group = DynamicGroup(config.group, index)]

\* the lookup without its exact-match step
getFieldConfigForDataField_templatesOnly(dataFieldKey) ==
    LET matching == {n \in 1..Len(FIELD_CONFIGURATIONS) :
                        TemplateMatches(n, dataFieldKey)}
    IN  IF matching = {} THEN Null
        ELSE LET first == CHOOSE n \in matching : \A m \in matching : n <= m
             IN  Config(TemplateInstance(FIELD_CONFIGURATIONS[first], dataFieldKey))

getFieldConfigForDataField(dataFieldKey) ==
    IF Truthy(RegistryLookup(dataFieldKey)) THEN RegistryLookup(dataFieldKey)
    ELSE LET matching == {n \in 1..Len(FIELD_CONFIGURATIONS) :
                             TemplateMatches(n, dataFieldKey)}
         IN  IF matching = {} THEN Null
             ELSE LET first == CHOOSE n \in matching : \A m \in matching : n <= m
                  IN  Config(TemplateInstance(FIELD_CONFIGURATIONS[first], dataFieldKey))

(***************************************************************************)
(* Option resolution.                                                      *)
(***************************************************************************)
\* one step of the reduce of getNestedValue
NestedStep(current, key) ==
    IF Truthy(current) /\ GetProperty(current, key) # Undefined
    THEN GetProperty(current, key)
    ELSE Undefined

RECURSIVE NestedFrom(_, _)
NestedFrom(current, keys) ==
    IF keys = <<>> THEN current
    ELSE NestedFrom(NestedStep(current, Head(keys)), Tail(keys))

getNestedValue(obj, path) == NestedFrom(obj, split(path, "."))

\* stateFieldValue?.toUpperCase(): undefined for null and undefined, the
\* upper-cased text for a string, a TypeError for a value with no such method
OptionalToUpperCase(v) ==
    IF IsNullish(v) THEN Return(Undefined)
    ELSE IF v.t = "string" THEN Return(Str(toUpperCase(v.s)))
    ELSE Throw("TypeError")

\* getFieldOptions without the fallback to the default list
getFieldOptions_noFallback(fieldConfig, auditData) ==
    IF Truthy(fieldConfig.options) THEN Return(fieldConfig.options)
    ELSE IF Truthy(fieldConfig.stateSpecificOptions) /\ Truthy(fieldConfig.dependsOnStateFrom)
    THEN LET stateFieldValue == getNestedValue(auditData, fieldConfig.dependsOnStateFrom.s)
             stateCode == OptionalToUpperCase(stateFieldValue)
         IN  IF ~Returned(stateCode) THEN stateCode
             ELSE IF /\ Truthy(stateCode.value)
                     /\ Truthy(GetProperty(fieldConfig.stateSpecificOptions, stateCode.value.s))
             THEN Return(GetProperty(fieldConfig.stateSpecificOptions, stateCode.value.s))
             ELSE Return(Arr(<<>>))
    ELSE Return(Arr(<<>>))

\* getFieldOptions that takes an empty options list for no options
getFieldOptions_nonEmptyOptions(fieldConfig, auditData) ==
    IF fieldConfig.options.t = "array" /\ fieldConfig.options.a # <<>>
    THEN Return(fieldConfig.options)
    ELSE IF Truthy(fieldConfig.stateSpecificOptions) /\ Truthy(fieldConfig.dependsOnStateFrom)
    THEN LET stateFieldValue == getNestedValue(auditData, fieldConfig.dependsOnStateFrom.s)
             stateCode == OptionalToUpperCase(stateFieldValue)
         IN  IF ~Returned(stateCode) THEN stateCode
             ELSE IF /\ Truthy(stateCode.value)
                     /\ Truthy(GetProperty(fieldConfig.stateSpecificOptions, stateCode.value.s))
             THEN Return(GetProperty(fieldConfig.stateSpecificOptions, stateCode.value.s))
             ELSE Return(GetProperty(fieldConfig.stateSpecificOptions, w_default))
    ELSE Return(Arr(<<>>))

\* getFieldOptions that needs no dependsOnStateFrom to hand out the default
\* list
getFieldOptions_defaultWithoutPath(fieldConfig, auditData) ==
    IF Truthy(fieldConfig.options) THEN Return(fieldConfig.options)
    ELSE IF Truthy(fieldConfig.stateSpecificOptions) /\ ~Truthy(fieldConfig.dependsOnStateFrom)
    THEN Return(GetProperty(fieldConfig.stateSpecificOptions, w_default))
    ELSE IF Truthy(fieldConfig.stateSpecificOptions)
    THEN LET stateFieldValue == getNestedValue(auditData, fieldConfig.dependsOnStateFrom.s)
             stateCode == OptionalToUpperCase(stateFieldValue)
         IN  IF ~Returned(stateCode) THEN stateCode
             ELSE IF /\ Truthy(stateCode.value)
                     /\ Truthy(GetProperty(fieldConfig.stateSpecificOptions, stateCode.value.s))
             THEN Return(GetProperty(fieldConfig.stateSpecificOptions, stateCode.value.s))
             ELSE Return(GetProperty(fieldConfig.stateSpecificOptions, w_default))
    ELSE Return(Arr(<<>>))

getFieldOptions(fieldConfig, auditData) ==
    IF Truthy(fieldConfig.options) THEN Return(fieldConfig.options)
    ELSE IF Truthy(fieldConfig.stateSpecificOptions) /\ Truthy(fieldConfig.dependsOnStateFrom)
    THEN LET stateFieldValue == getNestedValue(auditData, fieldConfig.dependsOnStateFrom.s)
             stateCode == OptionalToUpperCase(stateFieldValue)
         IN  IF ~Returned(stateCode) THEN stateCode
             ELSE IF /\ Truthy(stateCode.value)
                     /\ Truthy(GetProperty(fieldConfig.stateSpecificOptions, stateCode.value.s))
             THEN Return(GetProperty(fieldConfig.stateSpecificOptions, stateCode.value.s))
             ELSE Return(GetProperty(fieldConfig.stateSpecificOptions, w_default))
    ELSE Return(Arr(<<>>))

(***************************************************************************)
(* Dynamic groups.                                                         *)
(***************************************************************************)
\* the collection without the `|| []` default
CollectionOf_noDefault(data, section, collection) ==
    IF IsNullish(data) THEN Throw("TypeError")
    ELSE LET parent == GetProperty(data, section)
             found == IF IsNullish(parent) THEN Undefined
                      ELSE GetProperty(parent, collection)
         IN  Return(found)

\* data.<section>?.<collection> || [] : a TypeError when data is null or
\* undefined
CollectionOf(data, section, collection) ==
    IF IsNullish(data) THEN Throw("TypeError")
    ELSE LET parent == GetProperty(data, section)
             found == IF IsNullish(parent) THEN Undefined
                      ELSE GetProperty(parent, collection)
         IN  Return(IF Truthy(found) THEN found ELSE Arr(<<>>))

\* the instances with the order of the template, the index not added
InstancesOf_templateOrder(template, coll, idPrefix, namePrefix, descriptionPrefix) ==
    IF ~Returned(coll) THEN coll
    ELSE IF coll.value.t # "array" THEN Throw("TypeError")
    ELSE Return([i \in 1..Len(coll.value.a) |->
            [id |-> idPrefix \o NumberToString(i - 1),
             name |-> namePrefix \o NumberToString(i),
             order |-> template.order,
             description |-> Str(descriptionPrefix \o NumberToString(i)),
             defaultOpen |-> Undefined,
             parentGroup |-> template.parentGroup,
             isTemplate |-> Undefined,
             templatePattern |-> Undefined,
             dynamicNamePattern |-> Undefined]])

\* the groups one forEach over the collection pushes; a TypeError when the
\* value has no forEach
InstancesOf(template, coll, idPrefix, namePrefix, descriptionPrefix) ==
    IF ~Returned(coll) THEN coll
    ELSE IF coll.value.t # "array" THEN Throw("TypeError")
    ELSE Return([i \in 1..Len(coll.value.a) |->
            [id |-> idPrefix \o NumberToString(i - 1),
             name |-> namePrefix \o NumberToString(i),
             order |-> template.order + Order(i - 1),
             description |-> Str(descriptionPrefix \o NumberToString(i)),
             defaultOpen |-> Undefined,
             parentGroup |-> template.parentGroup,
             isTemplate |-> Undefined,
             templatePattern |-> Undefined,
             dynamicNamePattern |-> Undefined]])

\* the body of the forEach without the test of isTemplate
TemplateContribution_patternOnly(data, template) ==
    IF ~Truthy(template.templatePattern)
    THEN Return(<<>>)
    ELSE LET members ==
                 IF template.templatePattern = Str(w_client \o Dot \o w_household_members \o Star)
                 THEN InstancesOf(template,
                                  CollectionOf(data, w_client, w_household_members),
                                  w_household_member_, txt_Household_Member,
                                  txt_Information_for_household_member)
                 ELSE Return(<<>>)
             vehicles ==
                 IF template.templatePattern = Str(w_auto \o Dot \o w_vehicles \o Star)
                 THEN InstancesOf(template,
                                  CollectionOf(data, w_auto, w_vehicles),
                                  w_vehicle_, txt_Vehicle, txt_Information_for_vehicle)
                 ELSE Return(<<>>)
         IN  IF ~Returned(members) THEN members
             ELSE IF ~Returned(vehicles) THEN vehicles
             ELSE Return(members.value \o vehicles.value)

\* the body of templateGroups.forEach for one template
TemplateContribution(data, template) ==
    IF ~Truthy(template.isTemplate) \/ ~Truthy(template.templatePattern)
    THEN Return(<<>>)
    ELSE LET members ==
                 IF template.templatePattern = Str(w_client \o Dot \o w_household_members \o Star)
                 THEN InstancesOf(template,
                                  CollectionOf(data, w_client, w_household_members),
                                  w_household_member_, txt_Household_Member,
                                  txt_Information_for_household_member)
                 ELSE Return(<<>>)
             vehicles ==
                 IF template.templatePattern = Str(w_auto \o Dot \o w_vehicles \o Star)
                 THEN InstancesOf(template,
                                  CollectionOf(data, w_auto, w_vehicles),
                                  w_vehicle_, txt_Vehicle, txt_Information_for_vehicle)
                 ELSE Return(<<>>)
         IN  IF ~Returned(members) THEN members
             ELSE IF ~Returned(vehicles) THEN vehicles
             ELSE Return(members.value \o vehicles.value)

\* the groups pushed by the templates from position i on
RECURSIVE DynamicGroupsFrom(_, _, _)
DynamicGroupsFrom(data, templateGroups, i) ==
    IF i > Len(templateGroups) THEN Return(<<>>)
    ELSE LET here == TemplateContribution(data, templateGroups[i])
             rest == DynamicGroupsFrom(data, templateGroups, i + 1)
         IN  IF ~Returned(here) THEN here
             ELSE IF ~Returned(rest) THEN rest
             ELSE Return(here.value \o rest.value)

createDynamicGroups(data, templateGroups) == DynamicGroupsFrom(data, templateGroups, 1)

\* the registry after a lookup with the matched entry itself overwritten,
\* Object.assign(config, {key, group}), instead of copied
RegistryAfterLookup_assigned(dataFieldKey) ==
    IF Truthy(RegistryLookup(dataFieldKey)) THEN FIELD_CONFIGURATIONS
    ELSE LET matching == {n \in 1..Len(FIELD_CONFIGURATIONS) :
                             TemplateMatches(n, dataFieldKey)}
         IN  IF matching = {} THEN FIELD_CONFIGURATIONS
             ELSE LET first == CHOOSE n \in matching : \A m \in matching : n <= m
                  IN  [FIELD_CONFIGURATIONS EXCEPT
                          ![first] = TemplateInstance(@, dataFieldKey)]

\* the registry after a lookup: the object literal { ...config, key, group }
\* is a new object, and nothing is assigned to an entry of the registry
RegistryAfterLookup(dataFieldKey) == FIELD_CONFIGURATIONS

(***************************************************************************)
(* Group hierarchy.                                                        *)
(***************************************************************************)
\* [...Object.values(flatGroups), ...dynamicGroups] with the default [] of
\* the second parameter; spreading null is a TypeError.  flatGroups is given
\* by its values in property order.
AllGroups(flatGroups, dynamicGroups) ==
    IF dynamicGroups.t = "undefined" THEN Return(flatGroups)
    ELSE IF dynamicGroups.t = "array" THEN Return(flatGroups \o dynamicGroups.a)
    ELSE Throw("TypeError")

\* first forEach: the groups pushed to topLevel, in the order of allGroups
TopLevelOf(allGroups) == SelectSeq(allGroups, LAMBDA g : ~Truthy(g.parentGroup))

\* a bucket only for the top-level groups that some group names as parent
ParentIds_withChildren(allGroups) ==
    {TopLevelOf(allGroups)[n].id : n \in 1..Len(TopLevelOf(allGroups))}
    \cap {allGroups[n].parentGroup.s :
             n \in {m \in 1..Len(allGroups) : Truthy(allGroups[m].parentGroup)}}

\* the own properties of `hierarchy` after the first forEach
ParentIds(allGroups) == {TopLevelOf(allGroups)[n].id : n \in 1..Len(TopLevelOf(allGroups))}

\* hierarchy[group.parentGroup] in the second forEach: the bucket of an own
\* property, else what the object literal inherits
Bucket(allGroups, parentGroup) ==
    IF parentGroup.s \in ParentIds(allGroups) THEN Arr(<<>>) ELSE Inherited(parentGroup.s)

\* does the second forEach reach a push on a value that is no array
PushFails(allGroups) ==
    \E n \in 1..Len(allGroups) :
        /\ Truthy(allGroups[n].parentGroup)
        /\ allGroups[n].parentGroup.s \notin ParentIds(allGroups)
        /\ Truthy(Bucket(allGroups, allGroups[n].parentGroup))

\* second forEach: the groups pushed to hierarchy[parentId], in the order of
\* allGroups
ChildrenOf(allGroups, parentId) ==
    SelectSeq(allGroups, LAMBDA g : Truthy(g.parentGroup) /\ g.parentGroup.s = parentId)

\* a sort that puts an element before the elements of equal order
RECURSIVE SortByOrder_unstable(_)
SortByOrder_unstable(groups) ==
    IF groups = <<>> THEN <<>>
    ELSE LET n == Len(groups)
             last == groups[n]
             front == SortByOrder_unstable(SubSeq(groups, 1, n - 1))
             keep == Cardinality({i \in 1..(n - 1) : front[i].order < last.order})
         IN  SubSeq(front, 1, keep) \o <<last>> \o SubSeq(front, keep + 1, n - 1)

\* Array.prototype.sort((a, b) => a.order - b.order): the stable sort, by
\* insertion of each element behind the elements that are not larger
RECURSIVE SortByOrder(_)
SortByOrder(groups) ==
    IF groups = <<>> THEN <<>>
    ELSE LET n == Len(groups)
             last == groups[n]
             front == SortByOrder(SubSeq(groups, 1, n - 1))
             keep == Cardinality({i \in 1..(n - 1) : front[i].order <= last.order})
         IN  SubSeq(front, 1, keep) \o <<last>> \o SubSeq(front, keep + 1, n - 1)

buildGroupHierarchy(flatGroups, dynamicGroups) ==
    LET all == AllGroups(flatGroups, dynamicGroups)
    IN  IF ~Returned(all) THEN all
        ELSE IF PushFails(all.value) THEN Throw("TypeError")
        ELSE Return([topLevel |-> SortByOrder(TopLevelOf(all.value)),
                     hierarchy |-> [parentId \in ParentIds(all.value) |->
                                       SortByOrder(ChildrenOf(all.value, parentId))]])

\* Object.values(FIELD_GROUPS).filter(g => g.isTemplate), createDynamicGroups
\* and buildGroupHierarchy over the whole registry
getFieldsHierarchical(auditData) ==
    LET templateGroups == SelectSeq(FIELD_GROUPS, LAMBDA g : Truthy(g.isTemplate))
        dynamicGroups == createDynamicGroups(auditData, templateGroups)
    IN  IF ~Returned(dynamicGroups) THEN dynamicGroups
        ELSE LET built == buildGroupHierarchy(FIELD_GROUPS, Arr(dynamicGroups.value))
             IN  IF ~Returned(built) THEN built
                 ELSE Return([topLevel |-> built.value.topLevel,
                              hierarchy |-> built.value.hierarchy,
                              dynamicGroups |-> dynamicGroups.value])

\* the argument arrays left sorted, as a sort of the arrays passed would
\* leave them
ArgumentsAfterBuild_sortedInPlace(flatGroups, dynamicGroups) ==
    [flatGroups |-> SortByOrder(flatGroups),
     dynamicGroups |-> IF dynamicGroups.t = "array"
                       THEN Arr(SortByOrder(dynamicGroups.a)) ELSE dynamicGroups]

\* the argument arrays as a call of buildGroupHierarchy leaves them: allGroups
\* is a copy made by the spread, topLevel and the buckets are arrays made in
\* the call, and every push, assignment and sort acts on these
ArgumentsAfterBuild(flatGroups, dynamicGroups) ==
    [flatGroups |-> flatGroups, dynamicGroups |-> dynamicGroups]

(***************************************************************************)
(* Validation of a list of materials with percentages.                     *)
(***************************************************************************)
\* item.percentage || 0
PercentageOrZero(item) ==
    IF Truthy(GetProperty(item, w_percentage)) THEN GetProperty(item, w_percentage).n ELSE 0

\* materials.reduce((sum, item) => sum + (item.percentage || 0), 0)
RECURSIVE TotalPercentage(_)
TotalPercentage(materials) ==
    IF materials = <<>> THEN 0
    ELSE TotalPercentage(SubSeq(materials, 1, Len(materials) - 1))
         + PercentageOrZero(materials[Len(materials)])

\* new Set(materials.map(item => item.material)).size
UniqueMaterials(materials) ==
    Cardinality({GetProperty(materials[n], w_material) : n \in 1..Len(materials)})

\* a validation that looks for duplicates before it adds up the percentages
validateMaterialPercentages_duplicatesFirst(materials) ==
    IF ~Truthy(materials) THEN Return([isValid |-> TRUE, message |-> "none"])
    ELSE IF materials.t # "array" THEN Throw("TypeError")
    ELSE IF materials.a = <<>> THEN Return([isValid |-> TRUE, message |-> "none"])
    ELSE IF Len(materials.a) # UniqueMaterials(materials.a)
    THEN Return([isValid |-> FALSE, message |-> "Cannot have duplicate materials"])
    ELSE IF TotalPercentage(materials.a) > 100
    THEN Return([isValid |-> FALSE, message |-> "Total percentage cannot exceed 100%"])
    ELSE Return([isValid |-> TRUE, message |-> "none"])

\* the result has no message property when the list is valid ("none"); a
\* truthy value that is no array has no reduce, which is a TypeError
validateMaterialPercentages(materials) ==
    IF ~Truthy(materials) THEN Return([isValid |-> TRUE, message |-> "none"])
    ELSE IF materials.t # "array" THEN Throw("TypeError")
    ELSE IF materials.a = <<>> THEN Return([isValid |-> TRUE, message |-> "none"])
    ELSE IF TotalPercentage(materials.a) > 100
    THEN Return([isValid |-> FALSE, message |-> "Total percentage cannot exceed 100%"])
    ELSE IF Len(materials.a) # UniqueMaterials(materials.a)
    THEN Return([isValid |-> FALSE, message |-> "Cannot have duplicate materials"])
    ELSE Return([isValid |-> TRUE, message |-> "none"])

(***************************************************************************)
(* Field lookup over a registry that holds other entries than the ones     *)
(* shipped: getFieldConfigForDataField with FIELD_CONFIGURATIONS given.    *)
(***************************************************************************)
\* registry[key]: the own property, else what the object literal inherits
LookupIn(registry, key) ==
    IF \E n \in 1..Len(registry) : registry[n].key = key
    THEN Config(registry[CHOOSE n \in 1..Len(registry) : registry[n].key = key])
    ELSE Inherited(key)

\* the two tests of the template loop for one entry
MatchesTemplate(templateKey, dataFieldKey) ==
    /\ includes(templateKey, Star)
    /\ RegExpTest(TemplatePattern(templateKey), dataFieldKey)

getFieldConfigForDataFieldIn(registry, dataFieldKey) ==
    IF Truthy(LookupIn(registry, dataFieldKey)) THEN LookupIn(registry, dataFieldKey)
    ELSE LET matching == {n \in 1..Len(registry) :
                             MatchesTemplate(registry[n].key, dataFieldKey)}
         IN  IF matching = {} THEN Null
             ELSE LET first == CHOOSE n \in matching : \A m \in matching : n <= m
                  IN  Config(TemplateInstance(registry[first], dataFieldKey))

(***************************************************************************)
(* Fields of a section: getFieldsBySection and getFieldsGrouped, with the  *)
(* field registry given.                                                   *)
(***************************************************************************)
\* FIELD_GROUPS[a.group || '']?.order || 999: the order of the group of the
\* registry with that id; 999 when there is no such group (an inherited
\* property has no order) or when its order is 0
GroupOrderOf(field) ==
    LET id == IF Truthy(field.group) THEN field.group.s ELSE <<>>
        own == {n \in 1..Len(FIELD_GROUPS) : FIELD_GROUPS[n].id = id}
    IN  IF own = {} THEN Order(999)
        ELSE LET order == FIELD_GROUPS[CHOOSE n \in own : TRUE].order
             IN  IF order # 0 THEN order ELSE Order(999)

\* the comparator of the sort: by group order, then by field order
CompareFields(a, b) ==
    IF GroupOrderOf(a) # GroupOrderOf(b) THEN GroupOrderOf(a) - GroupOrderOf(b)
    ELSE a.order - b.order

\* Array.prototype.sort with that comparator: the stable sort, by insertion
\* of each element behind the elements that do not compare larger
RECURSIVE SortFields(_)
SortFields(fields) ==
    IF fields = <<>> THEN <<>>
    ELSE LET n == Len(fields)
             last == fields[n]
             front == SortFields(SubSeq(fields, 1, n - 1))
             keep == Cardinality({i \in 1..(n - 1) : CompareFields(front[i], last) <= 0})
         IN  SubSeq(front, 1, keep) \o <<last>> \o SubSeq(front, keep + 1, n - 1)

getFieldsBySectionIn(registry, section) ==
    SortFields(SelectSeq(registry, LAMBDA field : field.section = section))

getFieldsBySection(section) == getFieldsBySectionIn(FIELD_CONFIGURATIONS, section)

\* field.group || 'ungrouped'
GroupIdOf(field) == IF Truthy(field.group) THEN field.group.s ELSE w_ungrouped

\* the buckets of getFieldsGrouped: one per group id met, filled in the order
\* of the sorted fields.  grouped is an object literal, so for a group id that
\* names an inherited property grouped[groupId] is truthy and has no push,
\* which is a TypeError.
getFieldsGroupedIn(registry, section) ==
    LET fields == getFieldsBySectionIn(registry, section)
        ids == {GroupIdOf(fields[n]) : n \in 1..Len(fields)}
    IN  IF \E id \in ids : Truthy(Inherited(id)) THEN Throw("TypeError")
        ELSE Return([id \in ids |->
                        SelectSeq(fields, LAMBDA field : GroupIdOf(field) = id)])

getFieldsGrouped(section) == getFieldsGroupedIn(FIELD_CONFIGURATIONS, section)

(***************************************************************************)
(* Arguments the callers pass.                                             *)
(***************************************************************************)
RegistryKeys == {FIELD_CONFIGURATIONS[n].key : n \in 1..Len(FIELD_CONFIGURATIONS)}
TemplateKeys == {k \in RegistryKeys : includes(k, Star)}

\* the text of an array index as it is written in a concrete key
IndexTexts == {NumberToString(i) : i \in 0..MaxIndex} \cup {<<"0", "0", "7">>}

Bracketed(digits) == <<"[">> \o digits \o <<"]">>

\* the concrete key of element `digits` of a template key
Instantiate(templateKey, digits) == StringReplace(templateKey, Star, Bracketed(digits))

InstanceKeys == {Instantiate(k, d) : k \in TemplateKeys, d \in IndexTexts}

\* keys that are neither in the registry nor an element of a template
OtherKeys ==
    {<<>>,
     w_constructor, w_toString, w___proto__,
     w_home \o Dot \o w_vehicles \o Bracketed(<<"3">>) \o Dot \o w_year,
     w_client \o Dot \o w_household_members \o Bracketed(<<>>) \o Dot \o w_first_name,
     w_client \o Dot \o w_household_members \o Dot \o w_first_name,
     w_client \o Dot \o w_household_members \o Bracketed(<<"1">>),
     w_client \o <<"_">> \o w_household_members \o Bracketed(<<"2">>) \o Dot \o w_first_name,
     w_auto \o Dot \o w_vehicles \o Bracketed(<<"1">>) \o Dot \o w_year \o <<"\n">>,
     w_auto \o Dot \o w_vehicles \o Bracketed(<<"1">>) \o Dot \o w_year \o Dot \o w_type,
     w_client \o Dot \o w_suffix \o Bracketed(<<"0">>)}

DataFieldKeys == RegistryKeys \cup InstanceKeys \cup OtherKeys

\* field definitions a caller can pass to getFieldOptions: those of the
\* registry and definitions that combine or drop the option properties
FieldConfigs ==
    {FIELD_CONFIGURATIONS[n] : n \in 1..Len(FIELD_CONFIGURATIONS)}
    \cup {[cfg_home_foundation_type EXCEPT !.options = Arr(<<>>)],
          [cfg_home_foundation_type EXCEPT !.options = cfg_client_suffix.options],
          [cfg_bodily_injury EXCEPT !.options = cfg_client_suffix.options],
          [cfg_home_foundation_type EXCEPT !.dependsOnStateFrom = Undefined],
          [cfg_bodily_injury EXCEPT !.stateSpecificOptions = Undefined]}

\* the template groups as getFieldsHierarchical selects them
RegistryTemplates == SelectSeq(FIELD_GROUPS, LAMBDA g : Truthy(g.isTemplate))

TemplateGroupLists ==
    {RegistryTemplates, FIELD_GROUPS, <<>>}
    \cup {<<RegistryTemplates[n]>> : n \in 1..Len(RegistryTemplates)}

(***************************************************************************)
(* Data documents.                                                         *)
(***************************************************************************)
LowerChar(c) ==
    IF \E i \in 1..Len(UpperLetters) : UpperLetters[i] = c
    THEN LowerLetters[CHOOSE i \in 1..Len(UpperLetters) : UpperLetters[i] = c]
    ELSE c

\* every upper/lower-case spelling of a two-letter code
Spellings(code) ==
    {<<a, b>> : a \in {code[1], LowerChar(code[1])}, b \in {code[2], LowerChar(code[2])}}

RegionCodes == {<<"F", "L">>, <<"C", "A">>, <<"N", "Y">>, <<"T", "X">>}

\* values found where a field's dependsOnStateFrom points
StateValues ==
    {Str(s) : s \in UNION {Spellings(c) : c \in RegionCodes}}
    \cup {Str(<<>>), Str(w_default),
          Str(<<" ", "F", "L">>), Str(<<"F", "L", " ">>), Str(<<" ", "c", "a", " ">>)}
    \cup {Null, Num(0), Num(12), Bool(TRUE), Bool(FALSE), EmptyObject}

ClientStateValues ==
    {Str(<<"F", "L">>), Str(<<"n", "y">>), Str(<<"C", "a">>), Str(<<"T", "X">>),
     Str(<<" ", "F", "L">>), Null, Num(12)}

\* an array of n elements
Items(n) == Arr([i \in 1..n |-> EmptyObject])

\* values found where a repeated collection is expected
NonArrays == {Null, Str(<<"x">>), EmptyObject}

CollectionDocument(members, interests, vehicles) ==
    Obj((w_client :> Obj(w_household_members :> members))
        @@ (w_home :> Obj((w_additional_interests :> interests)
                          @@ (w_address_state :> Str(<<"F", "L">>))))
        @@ (w_auto :> Obj(w_vehicles :> vehicles)))

\* documents that differ in what getFieldOptions reads
StateDocuments ==
    {Undefined, Null, EmptyObject}
    \cup {Obj(w_home :> Obj(w_address_state :> v)) : v \in StateValues}
    \cup {Obj(w_home :> h) : h \in {Null, Str(<<"F", "L">>), Num(12), EmptyObject}}
    \cup {Obj(w_client :> Obj(w_current_address :> Obj(w_state :> v))) : v \in ClientStateValues}
    \cup {Obj(w_client :> Obj(w_current_address :> a)) : a \in {Null, Str(<<"F", "L">>), EmptyObject}}

\* documents that differ in what createDynamicGroups reads
CollectionDocuments ==
    {Undefined, Null, EmptyObject}
    \cup {CollectionDocument(Items(m), Items(i), Items(v)) :
             m \in 0..MaxItems, i \in 0..MaxItems, v \in 0..MaxItems}
    \cup {CollectionDocument(x, Items(1), Items(1)) : x \in NonArrays}
    \cup {CollectionDocument(Items(1), x, Items(1)) : x \in NonArrays}
    \cup {CollectionDocument(Items(1), Items(1), x) : x \in NonArrays}
    \cup {Obj((w_client :> c) @@ (w_auto :> Obj(w_vehicles :> Items(MaxItems)))) :
             c \in {Null, EmptyObject, Str(<<"x">>)}}
    \cup {Obj((w_auto :> a) @@ (w_client :> Obj(w_household_members :> Items(MaxItems)))) :
             a \in {Null, EmptyObject}}

\* what the two lookups return for each key, computed once
LookedUp == [k \in DataFieldKeys |-> getFieldConfig(k)]
Resolved == [k \in DataFieldKeys |-> getFieldConfigForDataField(k)]
RegistryAfter == [k \in DataFieldKeys |-> RegistryAfterLookup(k)]

(***************************************************************************)
(* The state: the data document the caller holds, the last call made, and  *)
(* an earlier call the caller has kept to compare a later one with.        *)
(***************************************************************************)
VARIABLES auditData, call, kept

vars == <<auditData, call, kept>>

NoCall == [op |-> "none"]

Init ==
    /\ auditData = EmptyObject
    /\ call = NoCall
    /\ kept = NoCall

\* the caller loads another record; what was resolved for the previous
\* record is dropped, the resolvers are invoked again for the new one
LoadDocument(d) ==
    /\ d # auditData
    /\ auditData' = d
    /\ call' = NoCall
    /\ UNCHANGED kept

CallGetFieldConfig(fieldKey) ==
    /\ call' = [op |-> "getFieldConfig",
                fieldKey |-> fieldKey,
                result |-> LookedUp[fieldKey]]
    /\ UNCHANGED <<auditData, kept>>

CallGetFieldConfigForDataField(dataFieldKey) ==
    /\ call' = [op |-> "getFieldConfigForDataField",
                dataFieldKey |-> dataFieldKey,
                result |-> Resolved[dataFieldKey],
                registryAfter |-> RegistryAfter[dataFieldKey]]
    /\ UNCHANGED <<auditData, kept>>

CallGetFieldOptions(fieldConfig) ==
    /\ call' = [op |-> "getFieldOptions",
                fieldConfig |-> fieldConfig,
                data |-> auditData,
                result |-> getFieldOptions(fieldConfig, auditData)]
    /\ UNCHANGED <<auditData, kept>>

CallCreateDynamicGroups(templateGroups) ==
    /\ call' = [op |-> "createDynamicGroups",
                templateGroups |-> templateGroups,
                data |-> auditData,
                result |-> createDynamicGroups(auditData, templateGroups)]
    /\ UNCHANGED <<auditData, kept>>

\* field lookup: getFieldConfig and getFieldConfigForDataField on every key
ResolverNext ==
    \/ \E k \in DataFieldKeys : CallGetFieldConfig(k)
    \/ \E k \in DataFieldKeys : CallGetFieldConfigForDataField(k)

ResolverSpec == Init /\ [][ResolverNext]_vars

\* option resolution over the documents that differ in the region code
OptionsNext ==
    \/ \E d \in StateDocuments : LoadDocument(d)
    \/ \E f \in FieldConfigs : CallGetFieldOptions(f)

OptionsSpec == Init /\ [][OptionsNext]_vars

\* group materialization over the documents that differ in the collections
GroupsNext ==
    \/ \E d \in CollectionDocuments : LoadDocument(d)
    \/ \E tg \in TemplateGroupLists : CallCreateDynamicGroups(tg)

GroupsSpec == Init /\ [][GroupsNext]_vars

(***************************************************************************)
(* Group sets passed to buildGroupHierarchy.                               *)
(***************************************************************************)
\* a FieldGroup with the properties the hierarchy reads
Group(id, order, parentGroup) ==
    [id |-> id,
     name |-> id,
     order |-> order,
     description |-> Undefined,
     defaultOpen |-> Undefined,
     parentGroup |-> parentGroup,
     isTemplate |-> Undefined,
     templatePattern |-> Undefined,
     dynamicNamePattern |-> Undefined]

top_3 == Group(<<"t", "3">>, Order(3), Undefined)
top_1 == Group(<<"t", "1">>, Order(1), Undefined)
top_2 == Group(<<"t", "2">>, Order(2), Undefined)
child_20 == Group(<<"k", "2", "0">>, Order(20), Str(<<"t", "1">>))
child_10 == Group(<<"k", "1", "0">>, Order(10), Str(<<"t", "1">>))
\* a group whose parent is itself a child
grandchild == Group(<<"g">>, Order(5), Str(<<"k", "1", "0">>))
\* two groups that name each other as parent
cycle_a == Group(<<"c", "a">>, Order(1), Str(<<"c", "b">>))
cycle_b == Group(<<"c", "b">>, Order(2), Str(<<"c", "a">>))
\* a group whose parent is the id of no group
orphan == Group(<<"o">>, Order(4), Str(<<"z", "z">>))
\* a group whose parent is the id of no group and a property every object has
orphan_constructor == Group(<<"p">>, Order(4), Str(w_constructor))
\* groups emitted at run time: one that ties with top_1, one that ties with
\* child_10
dynamic_1 == Group(<<"d", "1">>, Order(1), Undefined)
dynamic_10 == Group(<<"d", "1", "0">>, Order(10), Str(<<"t", "1">>))

GroupPool ==
    {top_3, top_1, child_10, cycle_a, cycle_b, orphan, orphan_constructor}

\* the sequences without repetition of at most n groups of the pool
RECURSIVE GroupLists(_)
GroupLists(n) ==
    IF n = 0 THEN {<<>>}
    ELSE GroupLists(n - 1)
         \cup {Append(l, g) : l \in {m \in GroupLists(n - 1) : Len(m) = n - 1},
                               g \in GroupPool}

\* no group occurs twice in the list
Distinct(l) == \A i, j \in 1..Len(l) : i # j => l[i] # l[j]

\* the hierarchy example: top-level orders 3, 1, 2 and children 20, 10
ExampleGroups == <<top_3, top_1, top_2, child_20, child_10>>

FlatGroups ==
    {l \in GroupLists(MaxGroups) : Distinct(l)}
    \cup {ExampleGroups, <<top_1, child_20, child_10>>, <<top_1, child_10, grandchild>>,
          FIELD_GROUPS}

DynamicGroupLists ==
    {Undefined, Null, Arr(<<>>), Arr(<<dynamic_1>>), Arr(<<dynamic_10, dynamic_1>>)}

\* what buildGroupHierarchy returns for each pair of arguments, computed once
Built == [f \in FlatGroups, d \in DynamicGroupLists |-> buildGroupHierarchy(f, d)]

\* a buildGroupHierarchy whose topLevel array outlives the call
CallBuildGroupHierarchy_sharedTopLevel(flatGroups, dynamicGroups) ==
    /\ call' = [op |-> "buildGroupHierarchy",
                flatGroups |-> flatGroups,
                dynamicGroups |-> dynamicGroups,
                result |-> IF /\ call.op = "buildGroupHierarchy"
                              /\ Returned(call.result)
                              /\ Returned(Built[flatGroups, dynamicGroups])
                           THEN Return([Built[flatGroups, dynamicGroups].value EXCEPT
                                           !.topLevel = call.result.value.topLevel \o @])
                           ELSE Built[flatGroups, dynamicGroups],
                after |-> ArgumentsAfterBuild(flatGroups, dynamicGroups)]
    /\ UNCHANGED <<auditData, kept>>

CallBuildGroupHierarchy(flatGroups, dynamicGroups) ==
    /\ call' = [op |-> "buildGroupHierarchy",
                flatGroups |-> flatGroups,
                dynamicGroups |-> dynamicGroups,
                result |-> Built[flatGroups, dynamicGroups],
                after |-> ArgumentsAfterBuild(flatGroups, dynamicGroups)]
    /\ UNCHANGED <<auditData, kept>>

\* the hierarchy builder over the group sets
BuildNext ==
    \E f \in FlatGroups, d \in DynamicGroupLists : CallBuildGroupHierarchy(f, d)

BuildSpec == Init /\ [][BuildNext]_vars

(***************************************************************************)
(* A session of several callers: every operation over a few arguments, the *)
(* document replaced between calls, one earlier call kept for comparison.  *)
(***************************************************************************)
SessionDocuments ==
    {Null,
     CollectionDocument(Items(1), Items(1), Items(2)),
     CollectionDocument(Str(<<"x">>), Items(0), Items(0)),
     Obj(w_home :> Obj(w_address_state :> Str(<<"c", "a">>)))}

SessionKeys ==
    {w_client \o Dot \o w_first_name,
     w_auto \o Dot \o w_vehicles \o Bracketed(<<"1">>) \o Dot \o w_year,
     w_constructor,
     w_home \o Dot \o w_vehicles \o Bracketed(<<"3">>) \o Dot \o w_year}

SessionFieldConfigs == {cfg_client_suffix, cfg_home_foundation_type}

SessionTemplateGroups == {RegistryTemplates, FIELD_GROUPS}

SessionFlatGroups ==
    {FIELD_GROUPS, ExampleGroups, <<top_1, orphan>>, <<top_1, orphan_constructor>>}

SessionDynamicGroups == {Undefined, Arr(<<dynamic_10, dynamic_1>>)}

\* the caller puts the last call and its result aside
KeepCall ==
    /\ call # NoCall
    /\ kept' = call
    /\ call' = NoCall
    /\ UNCHANGED auditData

SessionNext ==
    \/ \E d \in SessionDocuments : LoadDocument(d)
    \/ \E k \in SessionKeys : CallGetFieldConfigForDataField(k)
    \/ \E f \in SessionFieldConfigs : CallGetFieldOptions(f)
    \/ \E tg \in SessionTemplateGroups : CallCreateDynamicGroups(tg)
    \/ \E f \in SessionFlatGroups, d \in SessionDynamicGroups : CallBuildGroupHierarchy(f, d)
    \/ KeepCall

SessionSpec == Init /\ [][SessionNext]_vars

(***************************************************************************)
(* The hierarchy of the whole registry over a document whose collections   *)
(* grow and shrink between calls.                                          *)
(***************************************************************************)
Sections == {"applicant", "home", "auto"}

\* the elements of doc.<section>.<collection>, none when the section is not
\* there
ElementsAt(doc, section, collection) ==
    IF section \in DOMAIN doc.o THEN doc.o[section].o[collection].a ELSE <<>>

\* the document with doc.<section>.<collection> set to the array of elements
WithElements(doc, section, collection, elements) ==
    Obj((section :> Obj(collection :> Arr(elements))) @@ doc.o)

\* the collections of the document that the hierarchy materializes
GrowingCollections == {<<w_client, w_household_members>>, <<w_auto, w_vehicles>>}

\* the caller appends an element to a collection of the document
AppendElement(section, collection) ==
    /\ Len(ElementsAt(auditData, section, collection)) < MaxItems
    /\ auditData' = WithElements(auditData, section, collection,
                                 Append(ElementsAt(auditData, section, collection), EmptyObject))
    /\ UNCHANGED <<call, kept>>

\* the caller removes the last element of a collection of the document
RemoveElement(section, collection) ==
    /\ ElementsAt(auditData, section, collection) # <<>>
    /\ auditData' = WithElements(auditData, section, collection,
                                 SubSeq(ElementsAt(auditData, section, collection), 1,
                                        Len(ElementsAt(auditData, section, collection)) - 1))
    /\ UNCHANGED <<call, kept>>

\* the documents the appends and removals lead to: each collection not there
\* yet, or with up to MaxItems elements
FieldsDocuments ==
    {Obj(client @@ auto) :
        client \in {<<>>} \cup {w_client :> Obj(w_household_members :> Items(m)) : m \in 0..MaxItems},
        auto \in {<<>>} \cup {w_auto :> Obj(w_vehicles :> Items(v)) : v \in 0..MaxItems}}

\* documents with each of the three repeated collections of the registry's
\* template keys holding up to MaxItems elements
LandingDocuments ==
    {CollectionDocument(Items(m), Items(i), Items(v)) :
        m \in 0..MaxItems, i \in 0..MaxItems, v \in 0..MaxItems}

\* what getFieldsHierarchical returns for each document, computed once
Hierarchical ==
    [d \in FieldsDocuments \cup LandingDocuments |-> getFieldsHierarchical(d)]

\* a getFieldsHierarchical that hands out again what the last call built
CallGetFieldsHierarchical_cached(section) ==
    /\ call' = [op |-> "getFieldsHierarchical",
                section |-> section,
                data |-> auditData,
                result |-> IF call.op = "getFieldsHierarchical" THEN call.result
                           ELSE Hierarchical[auditData]]
    /\ UNCHANGED <<auditData, kept>>

CallGetFieldsHierarchical(section) ==
    /\ call' = [op |-> "getFieldsHierarchical",
                section |-> section,
                data |-> auditData,
                result |-> Hierarchical[auditData]]
    /\ UNCHANGED <<auditData, kept>>

FieldsNext ==
    \/ \E c \in GrowingCollections : AppendElement(c[1], c[2])
    \/ \E c \in GrowingCollections : RemoveElement(c[1], c[2])
    \/ \E s \in Sections : CallGetFieldsHierarchical(s)

FieldsSpec == Init /\ [][FieldsNext]_vars

(***************************************************************************)
(* Validation of the list of materials of a document that the caller       *)
(* edits.                                                                  *)
(***************************************************************************)
MaterialNames == {Text("Paint"), Text("Tile")}

\* percentages in whole percent; a negative one and one above 100 as a form
\* can hold them before validation
Percentages == {Num(0), Num(40), Num(60), Num(101), Num(0 - 50)}

\* the entries of a list: with a percentage or without one
MaterialItems ==
    {Obj((w_material :> m) @@ (w_percentage :> p)) : m \in MaterialNames, p \in Percentages}
    \cup {Obj(w_material :> m) : m \in MaterialNames}

\* the value of home.wall_finishes in the document: undefined when the
\* document has no such property
MaterialsOf(doc) ==
    IF IsNullish(GetProperty(doc, w_home)) THEN Undefined
    ELSE GetProperty(GetProperty(doc, w_home), w_wall_finishes)

MaterialsDocument(materials) == Obj(w_home :> Obj(w_wall_finishes :> materials))

\* the caller adds an entry to the list of the document; what was validated
\* before is dropped
AddMaterial(item) ==
    /\ MaterialsOf(auditData).t \in {"undefined", "null", "array"}
    /\ LET materials == IF MaterialsOf(auditData).t = "array"
                        THEN MaterialsOf(auditData).a ELSE <<>>
       IN  /\ Len(materials) < MaxMaterials
           /\ auditData' = MaterialsDocument(Arr(Append(materials, item)))
    /\ call' = NoCall
    /\ UNCHANGED kept

CallValidateMaterialPercentages ==
    /\ call' = [op |-> "validateMaterialPercentages",
                materials |-> MaterialsOf(auditData),
                result |-> validateMaterialPercentages(MaterialsOf(auditData))]
    /\ UNCHANGED <<auditData, kept>>

ValidateNext ==
    \/ \E d \in {MaterialsDocument(Null), MaterialsDocument(Arr(<<>>))} : LoadDocument(d)
    \/ \E item \in MaterialItems : AddMaterial(item)
    \/ CallValidateMaterialPercentages

ValidateSpec == Init /\ [][ValidateNext]_vars

(***************************************************************************)
(* Field lookup over registries with entries of other shapes: group ids    *)
(* that hold _template elsewhere, template keys with several brackets.     *)
(***************************************************************************)
\* a template field definition with the key and the group given
Entry(key, group) ==
    [cfg_household_members_first_name EXCEPT !.key = key, !.group = group]

k_a == <<"a">>
k_b == <<"b">>
k_c == <<"c">>

\* a[*].b and a[*].b[*].c with the first or the second bracket a number
OneBracketKey == k_a \o Star \o Dot \o k_b
TwoBracketKeys ==
    {k_a \o Star \o Dot \o k_b \o Star \o Dot \o k_c,
     k_a \o Bracketed(<<"1">>) \o Dot \o k_b \o Star \o Dot \o k_c,
     k_a \o Star \o Dot \o k_b \o Bracketed(<<"2">>) \o Dot \o k_c}

EntryGroups ==
    {Str(<<"x">> \o w_template_suffix),
     Str(<<"x">> \o w_template_suffix \o <<"_", "y">>),
     Str(<<"a">> \o w_template_suffix \o <<"_", "b">> \o w_template_suffix),
     Str(w_template_suffix),
     Str(<<"x", "_", "t", "e", "m", "p", "l", "a", "t", "e", "s">>),
     Str(<<"g", "e", "n", "e", "r", "a", "l">>),
     Undefined}

\* registries of one entry, and the shipped registry with one entry added
Registries ==
    {<<Entry(k, g)>> : k \in {OneBracketKey} \cup TwoBracketKeys, g \in EntryGroups}
    \cup {FIELD_CONFIGURATIONS \o <<Entry(OneBracketKey, g)>> :
              g \in {Str(<<"x">> \o w_template_suffix \o <<"_", "y">>)}}

BracketTexts == {<<"0">>, <<"0", "0", "7">>, NumberToString(MaxIndex)}

\* concrete keys with one and with two bracketed indices
EntryKeys ==
    {k_a \o Bracketed(i) \o Dot \o k_b : i \in BracketTexts}
    \cup {k_a \o Bracketed(i) \o Dot \o k_b \o Bracketed(j) \o Dot \o k_c :
             i \in BracketTexts, j \in BracketTexts}
    \cup {OneBracketKey, w_client \o Dot \o w_first_name}

\* what the lookup returns for each registry and key, computed once
ResolvedIn == [r \in Registries, k \in EntryKeys |-> getFieldConfigForDataFieldIn(r, k)]

CallGetFieldConfigForDataFieldIn(registry, dataFieldKey) ==
    /\ call' = [op |-> "getFieldConfigForDataField",
                registry |-> registry,
                dataFieldKey |-> dataFieldKey,
                result |-> ResolvedIn[registry, dataFieldKey]]
    /\ UNCHANGED <<auditData, kept>>

RewriteNext ==
    \E r \in Registries, k \in EntryKeys : CallGetFieldConfigForDataFieldIn(r, k)

RewriteSpec == Init /\ [][RewriteNext]_vars

(***************************************************************************)
(* Group materialization over template lists that hold other templates     *)
(* than the registry's: other name patterns, no isTemplate, no pattern, a  *)
(* pattern that names no collection the materializer knows.                *)
(***************************************************************************)
\* the registry's templates with another dynamicNamePattern
driver_template ==
    [grp_household_member_template EXCEPT
        !.dynamicNamePattern = Str(<<"D", "r", "i", "v", "e", "r", " ">> \o txt_index_plus_1)]
car_template ==
    [grp_vehicle_template EXCEPT
        !.dynamicNamePattern = Str(<<"C", "a", "r", " ", "#">> \o txt_index_plus_1)]

\* groups that lack what makes a template, or whose pattern is not known
IncompleteTemplates ==
    {grp_personal_information,
     grp_additional_interests_template,
     [grp_vehicle_template EXCEPT !.isTemplate = Bool(FALSE)],
     [grp_household_member_template EXCEPT !.isTemplate = Undefined],
     [grp_household_member_template EXCEPT !.templatePattern = Undefined],
     [grp_vehicle_template EXCEPT !.templatePattern = Str(<<>>)],
     [grp_vehicle_template EXCEPT !.templatePattern = Str(w_auto \o Dot \o w_vehicles)],
     [grp_vehicle_template EXCEPT !.templatePattern = Str(w_home \o Dot \o w_vehicles \o Star)]}

CompleteTemplates ==
    {grp_household_member_template, grp_vehicle_template, driver_template, car_template}

\* lists of one and of two groups, and the registry's templates with an
\* incomplete one in front, between and behind
VariantTemplateLists ==
    {<<a>> : a \in CompleteTemplates \cup IncompleteTemplates}
    \cup {<<a, b>> : a \in CompleteTemplates, b \in CompleteTemplates \cup IncompleteTemplates}
    \cup {<<a, b>> : a \in IncompleteTemplates, b \in CompleteTemplates}
    \cup {<<a, grp_household_member_template, grp_vehicle_template>> : a \in IncompleteTemplates}
    \cup {<<grp_household_member_template, a, grp_vehicle_template>> : a \in IncompleteTemplates}

\* documents with each materialized collection empty or filled, and no
\* document at all
VariantDocuments ==
    {Undefined, Null, EmptyObject}
    \cup {CollectionDocument(Items(m), Items(1), Items(v)) : m \in {0, MaxItems}, v \in {0, MaxItems - 1}}
    \cup {CollectionDocument(NonArray, Items(1), Items(1)) : NonArray \in {Str(<<"x">>)}}

TemplatesNext ==
    \/ \E d \in VariantDocuments : LoadDocument(d)
    \/ \E tg \in VariantTemplateLists : CallCreateDynamicGroups(tg)

TemplatesSpec == Init /\ [][TemplatesNext]_vars

(***************************************************************************)
(* The fields of a section, over the registry and over registries of a few *)
(* fields that tie in group order or in field order, have no group, or     *)
(* have a group that FIELD_GROUPS does not hold.                           *)
(***************************************************************************)
SectionFieldPool ==
    {cfg_auto_desired_policy_start_date,
     cfg_auto_wants_electronic_documents,
     cfg_vehicles_year,
     cfg_bodily_injury,
     cfg_client_first_name,
     [cfg_bodily_injury EXCEPT !.group = Undefined],
     [cfg_vehicles_year EXCEPT !.group = Str(<<"g", "e", "n", "e", "r", "a", "l">>)],
     [cfg_bodily_injury EXCEPT !.order = Order(1)]}

\* registries of one and of two fields, and the modelled registry whole and
\* reversed
SectionRegistries ==
    {<<a>> : a \in SectionFieldPool}
    \cup {pair \in SectionFieldPool \X SectionFieldPool : pair[1] # pair[2]}
    \cup {FIELD_CONFIGURATIONS,
          [n \in 1..Len(FIELD_CONFIGURATIONS) |->
              FIELD_CONFIGURATIONS[Len(FIELD_CONFIGURATIONS) + 1 - n]]}

\* what the two functions return for each registry and section, computed
\* once
FieldsOfSection ==
    [r \in SectionRegistries, s \in Sections |-> getFieldsBySectionIn(r, s)]
GroupedFieldsOfSection ==
    [r \in SectionRegistries, s \in Sections |-> getFieldsGroupedIn(r, s)]

CallGetFieldsBySection(registry, section) ==
    /\ call' = [op |-> "getFieldsBySection",
                registry |-> registry,
                section |-> section,
                result |-> Return(FieldsOfSection[registry, section])]
    /\ UNCHANGED <<auditData, kept>>

CallGetFieldsGrouped(registry, section) ==
    /\ call' = [op |-> "getFieldsGrouped",
                registry |-> registry,
                section |-> section,
                result |-> GroupedFieldsOfSection[registry, section]]
    /\ UNCHANGED <<auditData, kept>>

SectionNext ==
    \/ \E r \in SectionRegistries, s \in Sections : CallGetFieldsBySection(r, s)
    \/ \E r \in SectionRegistries, s \in Sections : CallGetFieldsGrouped(r, s)

SectionSpec == Init /\ [][SectionNext]_vars

(***************************************************************************)
(* The hierarchy over documents that hold all three repeated collections,  *)
(* to compare with the groups that field lookup names.                     *)
(***************************************************************************)
LandingNext ==
    \/ \E d \in LandingDocuments : LoadDocument(d)
    \/ \E s \in Sections : CallGetFieldsHierarchical(s)

LandingSpec == Init /\ [][LandingNext]_vars

(***************************************************************************)
(* Properties of field lookup (ResolverSpec).                              *)
(***************************************************************************)
EndsWith(s, suffix) ==
    /\ Len(s) >= Len(suffix)
    /\ SubSeq(s, Len(s) - Len(suffix) + 1, Len(s)) = suffix

WithoutSuffix(s, suffix) == SubSeq(s, 1, Len(s) - Len(suffix))

\* the part of a template key before and after its placeholder
BeforeStar(templateKey) == SubSeq(templateKey, 1, IndexOf(templateKey, Star) - 1)
AfterStar(templateKey) ==
    SubSeq(templateKey, IndexOf(templateKey, Star) + Len(Star), Len(templateKey))

\* key is templateKey with its placeholder replaced by a bracketed run of
\* one or more digits
IsElementOf(key, templateKey) ==
    /\ IndexOf(templateKey, Star) # 0
    /\ \E d \in 1..Len(key) :
          LET digits == SubSeq(key, Len(BeforeStar(templateKey)) + 2,
                               Len(BeforeStar(templateKey)) + 1 + d)
          IN  /\ Len(key) = Len(BeforeStar(templateKey)) + d + 2 + Len(AfterStar(templateKey))
              /\ \A j \in 1..d : IsDigit(digits[j])
              /\ key = BeforeStar(templateKey) \o Bracketed(digits) \o AfterStar(templateKey)

\* C1: template round-trip.  For every registry entry with a template key
\* a.b[*].c and a group g_template, and every index i, resolving a.b[<i>].c
\* returns a definition whose key is a.b[<i>].c and whose group is g_<i>.
TemplateRoundTrip ==
    call.op = "getFieldConfigForDataField" =>
        \A n \in 1..Len(FIELD_CONFIGURATIONS), i \in 0..MaxIndex :
            LET template == FIELD_CONFIGURATIONS[n]
                concrete == BeforeStar(template.key) \o Bracketed(NumberToString(i))
                                \o AfterStar(template.key)
            IN  (/\ IndexOf(template.key, Star) # 0
                 /\ template.group.t = "string"
                 /\ EndsWith(template.group.s, w_template_suffix)
                 /\ call.dataFieldKey = concrete)
                => /\ call.result.t = "FieldConfiguration"
                   /\ call.result.c.key = concrete
                   /\ call.result.c.group =
                          Str(WithoutSuffix(template.group.s, w_template_suffix)
                                  \o <<"_">> \o NumberToString(i))

\* element 12 of household_members was resolved into group household_member_12
TemplateRoundTripWitness ==
    /\ call.op = "getFieldConfigForDataField"
    /\ call.dataFieldKey = w_client \o Dot \o w_household_members
                               \o Bracketed(<<"1", "2">>) \o Dot \o w_first_name
    /\ call.result.t = "FieldConfiguration"
    /\ call.result.c.group = Str(w_household_member_ \o <<"1", "2">>)

\* C2: exact match precedence.  For every key that is a key of the registry,
\* getFieldConfigForDataField returns the registry's definition itself (same
\* key, same group, nothing rewritten), which is also what getFieldConfig
\* returns for that key.
ExactMatchPrecedence ==
    call.op = "getFieldConfigForDataField" =>
        \A n \in 1..Len(FIELD_CONFIGURATIONS) :
            FIELD_CONFIGURATIONS[n].key = call.dataFieldKey
            => /\ call.result = Config(FIELD_CONFIGURATIONS[n])
               /\ call.result = getFieldConfig(call.dataFieldKey)

\* a template key was looked up verbatim and came back with its [*] key and
\* its _template group
ExactMatchPrecedenceWitness ==
    /\ call.op = "getFieldConfigForDataField"
    /\ call.dataFieldKey = cfg_household_members_first_name.key
    /\ call.result.t = "FieldConfiguration"
    /\ call.result.c.key = w_client \o Dot \o w_household_members \o Star \o Dot \o w_first_name
    /\ call.result.c.group = Str(w_household_member_template)

\* C3: non-matching key.  For every key that is neither a key of the
\* registry nor an element of a template key, getFieldConfigForDataField
\* returns null.
NonMatchingKeyNotFound ==
    (/\ call.op = "getFieldConfigForDataField"
     /\ call.dataFieldKey \notin RegistryKeys
     /\ \A n \in 1..Len(FIELD_CONFIGURATIONS) :
            ~IsElementOf(call.dataFieldKey, FIELD_CONFIGURATIONS[n].key))
    => call.result = Null

(***************************************************************************)
(* Properties of option resolution (OptionsSpec).                          *)
(***************************************************************************)
\* the value stored in doc under a path of property names; undefined when
\* a segment of the path is not there
RECURSIVE OwnValueAt(_, _)
OwnValueAt(doc, segments) ==
    IF segments = <<>> THEN doc
    ELSE IF doc.t = "object" /\ Head(segments) \in DOMAIN doc.o
    THEN OwnValueAt(doc.o[Head(segments)], Tail(segments))
    ELSE Undefined

\* the value the last getFieldOptions call found at the field's state path
StateValueOfCall ==
    OwnValueAt(call.data, split(call.fieldConfig.dependsOnStateFrom.s, "."))

\* a field with stateSpecificOptions and dependsOnStateFrom
HasStateOptions(fieldConfig) ==
    /\ fieldConfig.stateSpecificOptions.t = "object"
    /\ fieldConfig.dependsOnStateFrom.t = "string"

\* the codes a field maps to a list
MappedCodes(fieldConfig) == DOMAIN fieldConfig.stateSpecificOptions.o \ {w_default}

DefaultOptions(fieldConfig) == fieldConfig.stateSpecificOptions.o[w_default]

\* s is code written in upper, lower or mixed case
SpelledAs(s, code) ==
    /\ Len(s) = Len(code)
    /\ \A i \in 1..Len(code) : s[i] \in {code[i], LowerChar(code[i])}

Whitespace == {" ", "\t", "\n"}

\* s is a spelling of code with whitespace before it, after it or both
PaddedSpellingOf(s, code) ==
    \E before \in 0..Len(s), after \in 0..Len(s) :
        /\ before + after >= 1
        /\ Len(s) = before + Len(code) + after
        /\ \A i \in 1..before : s[i] \in Whitespace
        /\ \A i \in (Len(s) - after + 1)..Len(s) : s[i] \in Whitespace
        /\ SpelledAs(SubSeq(s, before + 1, before + Len(code)), code)

\* C4: state fallback.  For a field with no static options and with
\* stateSpecificOptions and dependsOnStateFrom, getFieldOptions returns the
\* default list when nothing is stored at the state path (a segment is
\* missing, or the value is null or the empty string) and when the value is
\* a code that, upper-cased, is not a key of stateSpecificOptions.
StateFallback ==
    (/\ call.op = "getFieldOptions"
     /\ call.fieldConfig.options = Undefined
     /\ HasStateOptions(call.fieldConfig))
    => ((\/ StateValueOfCall \in {Undefined, Null, Str(<<>>)}
         \/ /\ StateValueOfCall.t = "string"
            /\ toUpperCase(StateValueOfCall.s) \notin DOMAIN call.fieldConfig.stateSpecificOptions.o)
        => call.result = Return(DefaultOptions(call.fieldConfig)))

\* the unmapped code TX gave the default list of home.foundation_type
StateFallbackWitness ==
    /\ call.op = "getFieldOptions"
    /\ call.fieldConfig = cfg_home_foundation_type
    /\ call.data = Obj(w_home :> Obj(w_address_state :> Str(<<"T", "X">>)))
    /\ call.result = Return(DefaultOptions(cfg_home_foundation_type))

\* C5: region-code normalization.  The state value is upper-cased and not
\* trimmed: every upper-, lower- or mixed-case spelling of a mapped code
\* gives that code's list, and a spelling with whitespace around it gives
\* the default list.
RegionCodeNormalization ==
    (/\ call.op = "getFieldOptions"
     /\ call.fieldConfig.options = Undefined
     /\ HasStateOptions(call.fieldConfig)
     /\ StateValueOfCall.t = "string")
    => \A code \in MappedCodes(call.fieldConfig) :
          /\ SpelledAs(StateValueOfCall.s, code)
             => call.result = Return(call.fieldConfig.stateSpecificOptions.o[code])
          /\ PaddedSpellingOf(StateValueOfCall.s, code)
             => call.result = Return(DefaultOptions(call.fieldConfig))

\* the lower-case spelling fl gave the FL list of home.foundation_type
RegionCodeNormalizationWitness ==
    /\ call.op = "getFieldOptions"
    /\ call.fieldConfig = cfg_home_foundation_type
    /\ call.data = Obj(w_home :> Obj(w_address_state :> Str(<<"f", "l">>)))
    /\ call.result = Return(cfg_home_foundation_type.stateSpecificOptions.o[<<"F", "L">>])
    /\ call.result # Return(DefaultOptions(cfg_home_foundation_type))

\* C6: static precedence.  A field with options (an empty list included)
\* and with stateSpecificOptions and dependsOnStateFrom gets its options
\* for every document.
StaticPrecedence ==
    (/\ call.op = "getFieldOptions"
     /\ call.fieldConfig.options.t = "array"
     /\ HasStateOptions(call.fieldConfig))
    => call.result = Return(call.fieldConfig.options)

\* a field with an empty options list and an FL list got the empty list for
\* a document whose state is FL
StaticPrecedenceWitness ==
    /\ call.op = "getFieldOptions"
    /\ call.fieldConfig.options = Arr(<<>>)
    /\ HasStateOptions(call.fieldConfig)
    /\ call.data = Obj(w_home :> Obj(w_address_state :> Str(<<"F", "L">>)))
    /\ call.result = Return(Arr(<<>>))

\* C7: getFieldOptions never throws.  Every call returns the empty list or
\* one of the lists of the field definition.
OptionsNeverThrow ==
    call.op = "getFieldOptions"
    => /\ Returned(call.result)
       /\ \/ call.result.value = Arr(<<>>)
          \/ call.result.value = call.fieldConfig.options
          \/ /\ call.fieldConfig.stateSpecificOptions.t = "object"
             /\ \E code \in DOMAIN call.fieldConfig.stateSpecificOptions.o :
                   call.result.value = call.fieldConfig.stateSpecificOptions.o[code]

(***************************************************************************)
(* Properties of group materialization (GroupsSpec).                       *)
(***************************************************************************)
StartsWith(s, prefix) ==
    /\ Len(s) >= Len(prefix)
    /\ SubSeq(s, 1, Len(prefix)) = prefix

\* the value stored in doc where a template pattern section.collection[*]
\* points
CollectionAt(doc, pattern) == OwnValueAt(doc, split(WithoutSuffix(pattern, Star), "."))

\* the patterns createDynamicGroups materializes and the id prefix of each
VehiclesPattern == w_auto \o Dot \o w_vehicles \o Star
HouseholdMembersPattern == w_client \o Dot \o w_household_members \o Star
AdditionalInterestsPattern == w_home \o Dot \o w_additional_interests \o Star

IdPrefixes ==
    (VehiclesPattern :> w_vehicle_) @@ (HouseholdMembersPattern :> w_household_member_)

\* the document is an object and each of the collections the patterns point
\* to is an array or is not there
WellFormed(doc, patterns) ==
    /\ doc.t = "object"
    /\ \A p \in patterns : CollectionAt(doc, p).t \in {"array", "undefined"}

\* entry k of the list is the only template of the list with this pattern
OnlyTemplateFor(templateGroups, k, pattern) ==
    /\ templateGroups[k].isTemplate = Bool(TRUE)
    /\ templateGroups[k].templatePattern = Str(pattern)
    /\ \A j \in 1..Len(templateGroups) :
          templateGroups[j].templatePattern = Str(pattern) => j = k

\* C8: dynamic group count.  For a template with pattern auto.vehicles[*]
\* (client.household_members[*]) and a document whose collection has n
\* elements, createDynamicGroups emits n groups in index order, with ids
\* vehicle_0..vehicle_<n-1> (household_member_<i>), order template.order + i
\* and the parentGroup of the template.
DynamicGroupCount ==
    (/\ call.op = "createDynamicGroups"
     /\ WellFormed(call.data, DOMAIN IdPrefixes))
    => /\ Returned(call.result)
       /\ \A k \in 1..Len(call.templateGroups), pattern \in DOMAIN IdPrefixes :
             (/\ OnlyTemplateFor(call.templateGroups, k, pattern)
              /\ CollectionAt(call.data, pattern).t = "array")
             => LET template == call.templateGroups[k]
                    n == Len(CollectionAt(call.data, pattern).a)
                    emitted == SelectSeq(call.result.value,
                                         LAMBDA g : StartsWith(g.id, IdPrefixes[pattern]))
                IN  /\ Len(emitted) = n
                    /\ \A i \in 0..(n - 1) :
                          /\ emitted[i + 1].id = IdPrefixes[pattern] \o NumberToString(i)
                          /\ emitted[i + 1].order = template.order + Order(i)
                          /\ emitted[i + 1].parentGroup = template.parentGroup

\* three vehicles gave vehicle_0, vehicle_1, vehicle_2 with orders 3, 4, 5
DynamicGroupCountWitness ==
    /\ call.op = "createDynamicGroups"
    /\ call.templateGroups = <<grp_vehicle_template>>
    /\ CollectionAt(call.data, VehiclesPattern) = Items(3)
    /\ Returned(call.result)
    /\ Len(call.result.value) = 3
    /\ call.result.value[3].id = w_vehicle_ \o <<"2">>
    /\ call.result.value[3].order = Order(5)

\* the number of elements of the collections of the templates of a list
RECURSIVE ElementsOfTemplates(_, _, _)
ElementsOfTemplates(doc, templateGroups, i) ==
    IF i > Len(templateGroups) THEN 0
    ELSE (IF /\ templateGroups[i].isTemplate = Bool(TRUE)
             /\ templateGroups[i].templatePattern.t = "string"
             /\ CollectionAt(doc, templateGroups[i].templatePattern.s).t = "array"
          THEN Len(CollectionAt(doc, templateGroups[i].templatePattern.s).a)
          ELSE 0)
         + ElementsOfTemplates(doc, templateGroups, i + 1)

\* C9: every recognized pattern is materialized.  A template with pattern
\* home.additional_interests[*] yields one group per element of
\* home.additional_interests, as the templates of client.household_members[*]
\* and auto.vehicles[*] do: the call emits as many groups as the collections
\* of its templates have elements.
EveryPatternMaterialized ==
    (/\ call.op = "createDynamicGroups"
     /\ WellFormed(call.data, {VehiclesPattern, HouseholdMembersPattern,
                                AdditionalInterestsPattern}))
    => /\ Returned(call.result)
       /\ Len(call.result.value) = ElementsOfTemplates(call.data, call.templateGroups, 1)

\* the collection a template points to is not there or is an empty array
MissingOrEmpty(doc, template) ==
    CollectionAt(doc, template.templatePattern.s) \in {Undefined, Arr(<<>>)}

\* C10: empty collection.  A template whose collection is missing from the
\* document (the array or its parent object is not there) or is an empty
\* array contributes no group: the call returns no group at all when this
\* is so for every template of the list, and no group with the id prefix of
\* the template otherwise.
EmptyCollection ==
    (/\ call.op = "createDynamicGroups"
     /\ call.data.t = "object")
    => LET templates == {k \in 1..Len(call.templateGroups) :
                            /\ call.templateGroups[k].isTemplate = Bool(TRUE)
                            /\ call.templateGroups[k].templatePattern.t = "string"}
       IN  /\ (\A k \in templates : MissingOrEmpty(call.data, call.templateGroups[k]))
              => call.result = Return(<<>>)
           /\ \A k \in templates :
                 (/\ MissingOrEmpty(call.data, call.templateGroups[k])
                  /\ call.templateGroups[k].templatePattern.s \in DOMAIN IdPrefixes
                  /\ Returned(call.result))
                 => \A i \in 1..Len(call.result.value) :
                       ~StartsWith(call.result.value[i].id,
                                   IdPrefixes[call.templateGroups[k].templatePattern.s])

\* a document with no auto.vehicles gave groups for its household members
\* only
EmptyCollectionWitness ==
    /\ call.op = "createDynamicGroups"
    /\ call.templateGroups = RegistryTemplates
    /\ call.data = Obj((w_auto :> EmptyObject)
                       @@ (w_client :> Obj(w_household_members :> Items(MaxItems))))
    /\ Returned(call.result)
    /\ Len(call.result.value) = MaxItems
    /\ \A i \in 1..MaxItems : StartsWith(call.result.value[i].id, w_household_member_)

(***************************************************************************)
(* Claims about the group hierarchy and about sequences of calls.          *)
(***************************************************************************)
\* C11: no exception crosses the boundary.  createDynamicGroups and
\* buildGroupHierarchy return a result, possibly empty, and never raise: for
\* every data document (a null or undefined one, one with a value that is no
\* array where a collection is expected) and every group set (one with a
\* parentGroup that is the id of no group).
NoExceptionCrossesBoundary ==
    call.op \in {"createDynamicGroups", "buildGroupHierarchy"} => Returned(call.result)

\* the groups a call of buildGroupHierarchy was given, static ones first
GivenGroups(c) ==
    c.flatGroups \o (IF c.dynamicGroups.t = "array" THEN c.dynamicGroups.a ELSE <<>>)

\* the place of a group in a list that holds it once
PlaceIn(groups, g) == CHOOSE n \in 1..Len(groups) : groups[n] = g

\* ascending by order, groups of equal order in the order of `given`
OrderedAsGiven(sorted, given) ==
    \A i, j \in 1..Len(sorted) :
        i < j => \/ sorted[i].order < sorted[j].order
                 \/ /\ sorted[i].order = sorted[j].order
                    /\ PlaceIn(given, sorted[i]) < PlaceIn(given, sorted[j])

\* C12: hierarchy ordering.  In every result of buildGroupHierarchy topLevel
\* is sorted by order ascending and so is every children bucket; groups of
\* equal order keep their insertion order, the static groups in registry
\* order first, then the dynamic groups in the order they were emitted.
HierarchyOrdering ==
    (call.op = "buildGroupHierarchy" /\ Returned(call.result))
    => /\ OrderedAsGiven(call.result.value.topLevel, GivenGroups(call))
       /\ \A parentId \in DOMAIN call.result.value.hierarchy :
             OrderedAsGiven(call.result.value.hierarchy[parentId], GivenGroups(call))

\* the example of top-level orders 3, 1, 2 and children 20, 10, with a
\* dynamic group tying with each: 1, 1, 2, 3 and 10, 10, 20 came back, the
\* static group first in each tie
HierarchyOrderingWitness ==
    /\ call.op = "buildGroupHierarchy"
    /\ call.flatGroups = ExampleGroups
    /\ call.dynamicGroups = Arr(<<dynamic_10, dynamic_1>>)
    /\ Returned(call.result)
    /\ call.result.value.topLevel = <<top_1, dynamic_1, top_2, top_3>>
    /\ call.result.value.hierarchy[top_1.id] = <<child_10, dynamic_10, child_20>>

\* the groups of a call whose parentGroup is the id of no top-level group
Orphans(c) ==
    {n \in 1..Len(GivenGroups(c)) :
        /\ Truthy(GivenGroups(c)[n].parentGroup)
        /\ \A m \in 1..Len(GivenGroups(c)) :
              Truthy(GivenGroups(c)[m].parentGroup)
              \/ GivenGroups(c)[m].id # GivenGroups(c)[n].parentGroup.s}

\* the groups of a result: topLevel and every children bucket
Rendered(result) ==
    {result.topLevel[n] : n \in 1..Len(result.topLevel)}
    \cup UNION {{result.hierarchy[p][n] : n \in 1..Len(result.hierarchy[p])} :
                   p \in DOMAIN result.hierarchy}

\* C13: orphan resilience.  A group whose parentGroup is not the id of a
\* top-level group (no group has that id, the parent is itself a child, the
\* group lies on a cycle of parents) is neither in topLevel nor in any
\* children bucket of the result, and the call returns normally.
OrphanResilience ==
    (/\ call.op = "buildGroupHierarchy"
     /\ call.dynamicGroups.t \in {"undefined", "array"}
     /\ Orphans(call) # {})
    => /\ Returned(call.result)
       /\ \A n \in Orphans(call) : GivenGroups(call)[n] \notin Rendered(call.result.value)

\* C14: template groups are never rendered directly.  In the result of
\* getFieldsHierarchical no group with isTemplate = true is in topLevel or in
\* a children bucket; only the groups materialized per element stand for a
\* template.
TemplatesNeverRendered ==
    (call.op = "getFieldsHierarchical" /\ Returned(call.result))
    => \A g \in Rendered(call.result.value) : ~Truthy(g.isTemplate)

\* the ids of the groups of the elements of the document, in the order the
\* templates of the registry emit them
ElementGroupIds(doc) ==
    [i \in 1..Len(ElementsAt(doc, w_client, w_household_members)) |->
        w_household_member_ \o NumberToString(i - 1)]
    \o [i \in 1..Len(ElementsAt(doc, w_auto, w_vehicles)) |->
        w_vehicle_ \o NumberToString(i - 1)]

\* the places of a result, in topLevel or in a bucket, where a group has the
\* id
PlacesOf(result, id) ==
    {<<"topLevel", n>> : n \in {k \in 1..Len(result.topLevel) : result.topLevel[k].id = id}}
    \cup UNION {{<<p, n>> : n \in {k \in 1..Len(result.hierarchy[p]) :
                                        result.hierarchy[p][k].id = id}} :
                   p \in DOMAIN result.hierarchy}

\* the result holds one group per element of the document and no other group
\* that is not a group of the registry
FreshFor(result, doc) ==
    /\ Returned(result)
    /\ [n \in 1..Len(result.value.dynamicGroups) |-> result.value.dynamicGroups[n].id]
           = ElementGroupIds(doc)
    /\ \A n \in 1..Len(ElementGroupIds(doc)) :
           Cardinality(PlacesOf(result.value, ElementGroupIds(doc)[n])) = 1
    /\ \A g \in Rendered(result.value) :
           \/ \E n \in 1..Len(FIELD_GROUPS) : FIELD_GROUPS[n] = g
           \/ \E n \in 1..Len(ElementGroupIds(doc)) : ElementGroupIds(doc)[n] = g.id

\* C15: no staleness.  Over every sequence of changes to the document
\* (elements appended to or removed from household_members and vehicles)
\* interleaved with calls of getFieldsHierarchical, the dynamicGroups and the
\* hierarchy of each call hold one group per element of the collections as
\* they are at that call, and no group of an earlier state of the document.
NoStaleGroups ==
    [][(call' # call /\ call'.op = "getFieldsHierarchical")
       => FreshFor(call'.result, auditData')]_vars

\* the document, empty at first, gained a vehicle and a household member;
\* the call made then has the two groups of that document and no group of a
\* second vehicle
NoStaleGroupsWitness ==
    /\ call.op = "getFieldsHierarchical"
    /\ call.data = auditData
    /\ ElementsAt(auditData, w_auto, w_vehicles) = <<EmptyObject>>
    /\ ElementsAt(auditData, w_client, w_household_members) = <<EmptyObject>>
    /\ Len(call.result.value.dynamicGroups) = 2
    /\ call.result.value.dynamicGroups[1].id = w_household_member_ \o <<"0">>
    /\ call.result.value.dynamicGroups[2].id = w_vehicle_ \o <<"0">>
    /\ Cardinality(PlacesOf(call.result.value, w_vehicle_ \o <<"1">>)) = 0

Inputs(c) == [f \in DOMAIN c \ {"result", "after"} |-> c[f]]

RECURSIVE SumOfPercentages(_, _)
SumOfPercentages(materials, n) ==
    IF n = 0 THEN 0
    ELSE SumOfPercentages(materials, n - 1)
         + (IF w_percentage \in DOMAIN materials[n].o
            THEN materials[n].o[w_percentage].n ELSE 0)

\* does a material name occur twice in the list
NameOccursTwice(materials) ==
    \E i, j \in 1..Len(materials) :
        i # j /\ materials[i].o[w_material] = materials[j].o[w_material]

\* C18: validateMaterialPercentages returns isValid = true exactly when the
\* list is empty or absent, or the sum of the percentages (a missing
\* percentage counting as 0) is at most 100 and no material name occurs
\* twice; when both rules are violated the message is the one about the
\* total percentage.
MaterialPercentagesValid ==
    call.op = "validateMaterialPercentages"
    => /\ Returned(call.result)
       /\ call.result.value.isValid
          <=> \/ call.materials \in {Undefined, Null, Arr(<<>>)}
              \/ /\ SumOfPercentages(call.materials.a, Len(call.materials.a)) <= 100
                 /\ ~NameOccursTwice(call.materials.a)
       /\ (/\ call.materials.t = "array"
           /\ SumOfPercentages(call.materials.a, Len(call.materials.a)) > 100
           /\ NameOccursTwice(call.materials.a))
          => call.result.value.message = "Total percentage cannot exceed 100%"

\* Paint 60 %, Paint 60 %: over 100 in total and a name twice, rejected with
\* the message about the total
MaterialPercentagesValidWitness ==
    /\ call.op = "validateMaterialPercentages"
    /\ call.materials = Arr(<<Obj((w_material :> Text("Paint")) @@ (w_percentage :> Num(60))),
                              Obj((w_material :> Text("Paint")) @@ (w_percentage :> Num(60)))>>)
    /\ call.result = Return([isValid |-> FALSE,
                             message |-> "Total percentage cannot exceed 100%"])

\* the entries of the registry of a call whose template key the data field
\* key of the call matches
MatchingEntries(c) ==
    {n \in 1..Len(c.registry) : MatchesTemplate(c.registry[n].key, c.dataFieldKey)}

\* the call resolved its key through a template, not through an entry of
\* that key
ResolvedByTemplate(c) ==
    /\ c.op = "getFieldConfigForDataField"
    /\ "registry" \in DOMAIN c
    /\ \A n \in 1..Len(c.registry) : c.registry[n].key # c.dataFieldKey
    /\ c.dataFieldKey \notin ObjectPrototype
    /\ MatchingEntries(c) # {}

\* the template the call resolved its key through: the first that matches
MatchedTemplate(c) ==
    c.registry[CHOOSE n \in MatchingEntries(c) : \A m \in MatchingEntries(c) : n <= m]

\* the number a run of digits denotes in decimal
RECURSIVE DecimalValue(_)
DecimalValue(digits) ==
    IF digits = <<>> THEN 0
    ELSE 10 * DecimalValue(SubSeq(digits, 1, Len(digits) - 1)) + DigitValue(digits[Len(digits)])

\* the text between the first [ and the first ] of a key
FirstBracketText(key) ==
    LET open == CHOOSE i \in 1..Len(key) : key[i] = "[" /\ \A j \in 1..(i - 1) : key[j] # "["
        close == CHOOSE i \in 1..Len(key) : key[i] = "]" /\ \A j \in 1..(i - 1) : key[j] # "]"
    IN  SubSeq(key, open + 1, close - 1)

\* the number of bracketed indices of a key
BracketCount(key) == Cardinality({i \in 1..Len(key) : key[i] = "["})

\* C19: group rewriting touches only a _template suffix.  When a template
\* field matches, the group returned has _template replaced by _<index> only
\* if the group id of the template ends with _template, and then only that
\* trailing occurrence; a group id with _template elsewhere (x_template_y, the
\* first occurrence in a_template_b_template) keeps that part.
SuffixOnlyRewrite ==
    ResolvedByTemplate(call)
    => LET group == MatchedTemplate(call).group
           index == NumberToString(DecimalValue(FirstBracketText(call.dataFieldKey)))
       IN  /\ call.result.t = "FieldConfiguration"
           /\ call.result.c.group =
                 IF group.t = "string" /\ EndsWith(group.s, w_template_suffix)
                 THEN Str(WithoutSuffix(group.s, w_template_suffix) \o <<"_">> \o index)
                 ELSE group

\* C20: index extraction.  When a key with several bracketed indices
\* (a[1].b[2].c) matches a template, the index that rewrites the group is the
\* first bracketed integer of the key read as a decimal number ([007] gives
\* 7), whichever bracket of the template holds [*].
FirstIndexRewrites ==
    (/\ ResolvedByTemplate(call)
     /\ BracketCount(call.dataFieldKey) >= 2
     /\ MatchedTemplate(call).group.t = "string"
     /\ includes(MatchedTemplate(call).group.s, w_template_suffix))
    => /\ call.result.t = "FieldConfiguration"
       /\ call.result.c.group =
             Str(StringReplace(MatchedTemplate(call).group.s, w_template_suffix,
                               <<"_">> \o NumberToString(
                                   DecimalValue(FirstBracketText(call.dataFieldKey)))))

\* a[007].b[12].c was resolved through a[1].b[*].c, whose placeholder is the
\* second bracket, into group x_7
FirstIndexRewritesWitness ==
    /\ call.op = "getFieldConfigForDataField"
    /\ call.registry = <<Entry(k_a \o Bracketed(<<"1">>) \o Dot \o k_b \o Star \o Dot \o k_c,
                               Str(<<"x">> \o w_template_suffix))>>
    /\ call.dataFieldKey = k_a \o Bracketed(<<"0", "0", "7">>) \o Dot \o k_b
                               \o Bracketed(NumberToString(MaxIndex)) \o Dot \o k_c
    /\ call.result.t = "FieldConfiguration"
    /\ call.result.c.group = Str(<<"x", "_", "7">>)

(***************************************************************************)
(* Frame of template resolution (ResolverSpec).                            *)
(***************************************************************************)
\* the properties of a field definition other than key and group
CopiedProperties == DOMAIN cfg_client_first_name \ {"key", "group"}

\* the call returned a definition that is no entry of the registry
BuiltFromTemplate(c) ==
    /\ c.op = "getFieldConfigForDataField"
    /\ c.dataFieldKey \notin RegistryKeys
    /\ c.result.t = "FieldConfiguration"

KnownPatterns ==
    {Str(w_client \o Dot \o w_household_members \o Star),
     Str(w_auto \o Dot \o w_vehicles \o Star)}

\* a group that is a template of a collection the materializer knows
Recognized(t) == t.isTemplate = Bool(TRUE) /\ t.templatePattern \in KnownPatterns

\* the elements of the collection that a recognized template names
ElementsFor(data, t) ==
    IF t.templatePattern = Str(w_client \o Dot \o w_household_members \o Star)
    THEN CollectionOf(data, w_client, w_household_members).value.a
    ELSE CollectionOf(data, w_auto, w_vehicles).value.a

\* the number of groups that the templates before position n emit
RECURSIVE EmittedBefore(_, _, _)
EmittedBefore(data, templateGroups, n) ==
    IF n <= 1 THEN 0
    ELSE EmittedBefore(data, templateGroups, n - 1)
         + (IF Recognized(templateGroups[n - 1])
            THEN Len(ElementsFor(data, templateGroups[n - 1])) ELSE 0)

\* a dynamicNamePattern with the number n in the place of {index + 1}
FormatName(pattern, n) == StringReplace(pattern, txt_index_plus_1, NumberToString(n))

\* C22: dynamic group names come from the template.  The name of the i-th
\* group that createDynamicGroups emits for a template is the template's
\* dynamicNamePattern with i+1 substituted, so templates with the same
\* templatePattern and different dynamicNamePattern give different names.
NamesFromPattern ==
    (call.op = "createDynamicGroups" /\ Returned(call.result))
    => \A n \in 1..Len(call.templateGroups) :
          LET t == call.templateGroups[n]
          IN  (Recognized(t) /\ t.dynamicNamePattern.t = "string")
              => \A i \in 1..Len(ElementsFor(call.data, t)) :
                    LET at == EmittedBefore(call.data, call.templateGroups, n) + i
                    IN  /\ at <= Len(call.result.value)
                        /\ call.result.value[at].name = FormatName(t.dynamicNamePattern.s, i)

\* C24: unrecognized or incomplete templates contribute nothing.  A group
\* whose isTemplate is not true, whose templatePattern is missing or whose
\* templatePattern is no known collection path adds no group and raises no
\* error, and what the other templates of the call produce is what they
\* produce without it.
IncompleteContributeNothing ==
    call.op = "createDynamicGroups"
    => /\ call.result =
              createDynamicGroups(call.data, SelectSeq(call.templateGroups, Recognized))
       /\ (\A n \in 1..Len(call.templateGroups) : ~Recognized(call.templateGroups[n]))
              => call.result = Return(<<>>)

\* a template without isTemplate stood between the two templates of the
\* registry: three members and two vehicles gave five groups, the vehicles
\* after the members
IncompleteContributeNothingWitness ==
    /\ call.op = "createDynamicGroups"
    /\ Len(call.templateGroups) = 3
    /\ call.templateGroups[2] = [grp_household_member_template EXCEPT !.isTemplate = Undefined]
    /\ Recognized(call.templateGroups[1])
    /\ Recognized(call.templateGroups[3])
    /\ Returned(call.result)
    /\ Len(call.result.value) = MaxItems + MaxItems - 1
    /\ call.result.value[MaxItems].id = w_household_member_ \o NumberToString(MaxItems - 1)
    /\ call.result.value[MaxItems + 1].id = w_vehicle_ \o <<"0">>

(***************************************************************************)
(* The place of the materialized groups among their siblings (FieldsSpec). *)
(***************************************************************************)
\* the ids of the groups that a template materializes
InstanceIds(prefix) == {prefix \o NumberToString(i) : i \in 0..MaxItems}

\* the places of a sibling list that hold an instance of the template
InstancePlaces(siblings, prefix) ==
    {k \in 1..Len(siblings) : siblings[k].id \in InstanceIds(prefix)}

\* no other group stands between two instances
Adjacent(siblings, prefix) ==
    \A i, j \in InstancePlaces(siblings, prefix) :
        \A k \in i..j : k \in InstancePlaces(siblings, prefix)

\* C23: instances stay within the template's order slot.  In the hierarchy
\* that getFieldsHierarchical builds over the group registry, for every
\* length of a collection the instances of one template are adjacent in the
\* sorted sibling list: no static sibling of a greater order than the
\* template (current_insurance_details, order 4, after vehicle_template,
\* order 3) stands before or between them.
InstancesAdjacent ==
    (call.op = "getFieldsHierarchical" /\ Returned(call.result))
    => \A prefix \in {w_household_member_, w_vehicle_} :
          /\ Adjacent(call.result.value.topLevel, prefix)
          /\ \A p \in DOMAIN call.result.value.hierarchy :
                Adjacent(call.result.value.hierarchy[p], prefix)
          /\ \A k \in InstancePlaces(call.result.value.topLevel, prefix) :
                \A m \in 1..(k - 1) :
                   LET before == call.result.value.topLevel[m]
                       template == IF prefix = w_vehicle_ THEN grp_vehicle_template
                                   ELSE grp_household_member_template
                   IN  before.id \in InstanceIds(prefix)
                       \/ before.order <= template.order

(***************************************************************************)
(* The shape of the hierarchy (BuildSpec).                                 *)
(***************************************************************************)
\* how often a group stands in a list
Occurrences(groups, g) == Cardinality({k \in 1..Len(groups) : groups[k] = g})

\* how often a group stands in the buckets other than that of parentId
OccurrencesElsewhere(hierarchy, parentId, g) ==
    Cardinality({<<p, k>> \in UNION {{<<q, m>> : m \in 1..Len(hierarchy[q])} :
                                        q \in DOMAIN hierarchy \ {parentId}} :
                    hierarchy[p][k] = g})

\* C26: hierarchy shape.  In every result of buildGroupHierarchy the keys of
\* the children map are the ids of the top-level groups (a bucket exists even
\* when it is empty); every input group with no parentGroup is once in
\* topLevel; every input group whose parentGroup is a top-level id is once in
\* the bucket of that parent and nowhere else; and the output holds no group
\* that was not in the input.
HierarchyShape ==
    (call.op = "buildGroupHierarchy" /\ Returned(call.result))
    => LET given == GivenGroups(call)
           topLevel == call.result.value.topLevel
           hierarchy == call.result.value.hierarchy
           topIds == {topLevel[k].id : k \in 1..Len(topLevel)}
       IN  /\ DOMAIN hierarchy = topIds
           /\ \A n \in 1..Len(given) :
                 given[n].parentGroup = Undefined
                 => /\ Occurrences(topLevel, given[n]) = 1
                    /\ OccurrencesElsewhere(hierarchy, <<>>, given[n]) = 0
           /\ \A n \in 1..Len(given) :
                 (given[n].parentGroup.t = "string" /\ given[n].parentGroup.s \in topIds)
                 => /\ Occurrences(hierarchy[given[n].parentGroup.s], given[n]) = 1
                    /\ OccurrencesElsewhere(hierarchy, given[n].parentGroup.s, given[n]) = 0
                    /\ Occurrences(topLevel, given[n]) = 0
           /\ \A g \in Rendered(call.result.value) :
                 \E n \in 1..Len(given) : given[n] = g

\* one static top-level group with two children, and a dynamic top-level
\* group and a dynamic child: two buckets came back, the one of the dynamic
\* top-level group empty
HierarchyShapeWitness ==
    /\ call.op = "buildGroupHierarchy"
    /\ call.flatGroups = <<top_1, child_20, child_10>>
    /\ call.dynamicGroups = Arr(<<dynamic_10, dynamic_1>>)
    /\ Returned(call.result)
    /\ DOMAIN call.result.value.hierarchy = {top_1.id, dynamic_1.id}
    /\ call.result.value.hierarchy[dynamic_1.id] = <<>>
    /\ Len(call.result.value.hierarchy[top_1.id]) = 3
    /\ Len(call.result.value.topLevel) = 2

(***************************************************************************)
(* The fields of a section (SectionSpec).                                  *)
(***************************************************************************)
\* the fields of the registry of a call that belong to its section
SectionFields(c) == {c.registry[n] : n \in {m \in 1..Len(c.registry) :
                                              c.registry[m].section = c.section}}

\* ascending by the field order
AscendingByOrder(fields) ==
    \A i, j \in 1..Len(fields) : i < j => fields[i].order <= fields[j].order

\* C27: getFieldsBySection(section) returns the registry fields of that
\* section, each once, ordered so that the fields of one group form a
\* contiguous run, the runs stand in ascending group order, and the fields of
\* a run are ascending by field order; getFieldsGrouped puts each of those
\* fields in one bucket (that of its group id, or ungrouped), each bucket
\* ascending by order.
SectionOrdering ==
    /\ call.op = "getFieldsBySection"
       => LET fields == call.result.value
          IN  /\ {fields[n] : n \in 1..Len(fields)} = SectionFields(call)
              /\ Len(fields) = Cardinality(SectionFields(call))
              /\ \A i, j \in 1..Len(fields) :
                    (i < j /\ GroupIdOf(fields[i]) = GroupIdOf(fields[j]))
                    => /\ \A k \in i..j : GroupIdOf(fields[k]) = GroupIdOf(fields[i])
                       /\ fields[i].order <= fields[j].order
              /\ \A i, j \in 1..Len(fields) :
                    i < j => GroupOrderOf(fields[i]) <= GroupOrderOf(fields[j])
    /\ call.op = "getFieldsGrouped"
       => /\ Returned(call.result)
          /\ LET grouped == call.result.value
             IN  /\ \A field \in SectionFields(call) :
                       /\ GroupIdOf(field) \in DOMAIN grouped
                       /\ \A id \in DOMAIN grouped :
                             Occurrences(grouped[id], field)
                                 = (IF id = GroupIdOf(field) THEN 1 ELSE 0)
                 /\ \A id \in DOMAIN grouped :
                       /\ AscendingByOrder(grouped[id])
                       /\ \A n \in 1..Len(grouped[id]) :
                             grouped[id][n] \in SectionFields(call)

(***************************************************************************)
(* The empty list of option resolution (OptionsSpec).                      *)
(***************************************************************************)
\* the field has no options, and has no stateSpecificOptions or no
\* dependsOnStateFrom
LacksLists(fieldConfig) ==
    /\ ~Truthy(fieldConfig.options)
    /\ ~Truthy(fieldConfig.stateSpecificOptions) \/ ~Truthy(fieldConfig.dependsOnStateFrom)

\* one of the lists that the field definition holds is empty
HoldsEmptyList(fieldConfig) ==
    \/ fieldConfig.options = Arr(<<>>)
    \/ /\ fieldConfig.stateSpecificOptions.t = "object"
       /\ \E code \in DOMAIN fieldConfig.stateSpecificOptions.o :
             fieldConfig.stateSpecificOptions.o[code] = Arr(<<>>)

\* C25 as stated: getFieldOptions returns the empty list exactly when the
\* field has no options and lacks stateSpecificOptions or dependsOnStateFrom.
EmptyListExactly ==
    call.op = "getFieldOptions"
    => (call.result = Return(Arr(<<>>)) <=> LacksLists(call.fieldConfig))

\* C25, amended: a field with no options that lacks stateSpecificOptions or
\* dependsOnStateFrom gets the empty list (with stateSpecificOptions and no
\* dependsOnStateFrom the empty list, not the default list); any other field
\* gets an empty list only when a list of its definition is itself empty.
EmptyListCase ==
    call.op = "getFieldOptions"
    => /\ LacksLists(call.fieldConfig) => call.result = Return(Arr(<<>>))
       /\ (call.result = Return(Arr(<<>>)) /\ ~LacksLists(call.fieldConfig))
              => HoldsEmptyList(call.fieldConfig)

\* foundation_type without its dependsOnStateFrom got the empty list, not
\* its default list, for a document whose state is FL
EmptyListCaseWitness ==
    /\ call.op = "getFieldOptions"
    /\ call.fieldConfig = [cfg_home_foundation_type EXCEPT !.dependsOnStateFrom = Undefined]
    /\ call.data = Obj(w_home :> Obj(w_address_state :> Str(<<"F", "L">>)))
    /\ call.result = Return(Arr(<<>>))
    /\ call.result # Return(GetProperty(cfg_home_foundation_type.stateSpecificOptions, w_default))

(***************************************************************************)
(* What a template key matches (ResolverSpec).                             *)
(***************************************************************************)
\* C28: template matching is literal outside the brackets.  A concrete key
\* is resolved through a template key only if it is that template key with
\* its [*] replaced by a bracketed run of one or more digits; a key that
\* differs from the template in a character outside the brackets (another
\* character where the template has a dot) is not matched by it.
LiteralOutsideBrackets ==
    BuiltFromTemplate(call)
    => \E n \in 1..Len(FIELD_CONFIGURATIONS) :
          /\ IsElementOf(call.dataFieldKey, FIELD_CONFIGURATIONS[n].key)
          /\ \A p \in CopiedProperties :
                call.result.c[p] = FIELD_CONFIGURATIONS[n][p]

(***************************************************************************)
(* Field lookup against the hierarchy of the same document (LandingSpec).  *)
(***************************************************************************)
\* the number of elements of the collection of the document that a template
\* key names
ElementCount(doc, templateKey) ==
    LET collection == getNestedValue(doc, BeforeStar(templateKey))
    IN  IF collection.t = "array" THEN Len(collection.a) ELSE 0

\* C29: resolved fields land in a group that exists.  For every template
\* field key of the registry (household_members, additional_interests,
\* vehicles) and every index below the length of the matching collection of
\* the document, the group id of what getFieldConfigForDataField returns is
\* the id of a group of getFieldsHierarchical's output for that document, in
\* topLevel or in a children bucket.
ResolvedGroupExists ==
    (call.op = "getFieldsHierarchical" /\ Returned(call.result))
    => \A templateKey \in TemplateKeys :
          \A i \in 0..(ElementCount(call.data, templateKey) - 1) :
             LET resolved == Resolved[Instantiate(templateKey, NumberToString(i))]
             IN  /\ resolved.t = "FieldConfiguration"
                 /\ resolved.c.group.t = "string"
                 /\ \E g \in Rendered(call.result.value) : g.id = resolved.c.group.s

(***************************************************************************)
(* The groups of the elements of one collection (ResolverSpec).            *)
(***************************************************************************)
\* C30: per-instance grouping.  For every template field key of the
\* registry and any two distinct indices i and j, the definitions resolved
\* for index i and for index j carry different group ids: fields of
\* different household members, additional interests or vehicles
\* (auto.vehicles[0].year and auto.vehicles[1].year) never share a group.
PerInstanceGroups ==
    (call.op = "getFieldConfigForDataField" /\ call.result.t = "FieldConfiguration")
    => \A templateKey \in TemplateKeys :
          \A i, j \in 0..MaxIndex :
             (/\ i # j
              /\ call.dataFieldKey = Instantiate(templateKey, NumberToString(i)))
             => LET other == Resolved[Instantiate(templateKey, NumberToString(j))]
                IN  /\ other.t = "FieldConfiguration"
                    /\ other.c.group # call.result.c.group
====
